---- MODULE Spec2Model ----
(***************************************************************************)
(* State-machine model of the skinned-animation code of renpy-shader:      *)
(*   shader/skinnedplayer.py   AnimationPlayer, Track, TrackInfo           *)
(*   shader/skinnedanimation.py  SkinnedAnimation: keys, bake, apply       *)
(*   shader/skinnededitor.py   SkinnedEditor, PoseMode, the modal edits    *)
(*   shader/skinned.py         Bone, saveToFile / loadFromFile (full)      *)
(*   shader/skin.py            SkinningBone, saveToFile / loadFromFile     *)
(*                                                                         *)
(* Python's None is the empty sequence <<>> and a present value x is       *)
(* <<x>>, so that optional fields compare without mixing value kinds.      *)
(***************************************************************************)
EXTENDS Integers, Sequences, FiniteSets, TLC

VARIABLES
    time,       \* context.time, in ticks of 1/ClockHz second
    tracks,     \* AnimationData.tracks of the player at hand: track name -> Track
    playerStore,\* context.store of the players: full tag -> AnimationData.tracks
    lastPlay,   \* what the last AnimationPlayer call was and how it ended
    bones,      \* renderer.bones: bone name -> Bone
    lastRig,    \* the last rig mutation made by the editor
    disk,       \* the rig file on disk: <<>> or <<document>>
    saved,      \* the rig that the file on disk was written from: <<>> or <<bones>>
    loaded,     \* outcome of the last loadFromFile
    anim,       \* SkinnedAnimation.frames of the animation at hand
    lastAnim,   \* the last call made on that animation
    store,      \* context.store of the editor: active bone, pointer, drags, mode
    lastEvent,  \* the events of the editor's last tick, and what they did
    glState,    \* the GL context: program in use, enabled attributes, texture units
    lastRender  \* the last render pass and the GL calls it made, in order

playerVars == <<time, tracks, playerStore, lastPlay>>
rigVars == <<bones, lastRig>>
fileVars == <<disk, saved, loaded>>
animVars == <<anim, lastAnim>>
editVars == <<store, lastEvent>>
renderVars == <<glState, lastRender>>
vars == <<playerVars, rigVars, fileVars, animVars, editVars, renderVars>>

----------------------------------------------------------------------------
(* Bounds of the model *)

\* The clock runs from 0 to MaxTime ticks where several tracks run, and to
\* MaxClock ticks where a single track is followed through its passes.
MaxTime == 2
MaxClock == 12
\* Ticks per second of the modelled clock.
ClockHz == 2
\* Largest clock advance between two player calls.
MaxStep == 3
\* Longest track-info list handed to play() where several tracks run.
MaxInfos == 2
\* Most bones a rig grows to by extrusion.
MaxBones == 4
\* Most frames of an animation that is applied or keyed directly.
MaxFrames == 4
\* Most entries of a triangle list a mesh is built from.
MaxTriangles == 3

----------------------------------------------------------------------------
(* Generic helpers *)

None == <<>>
Some(x) == <<x>>

Min(a, b) == IF a < b THEN a ELSE b

Range(s) == {s[i] : i \in 1..Len(s)}

\* The function f without the key k (del d[k]).
Without(f, k) == [x \in (DOMAIN f) \ {k} |-> f[x]]

\* The function f with key k set to v (d[k] = v).
With(f, k, v) == [x \in (DOMAIN f) \cup {k} |-> IF x = k THEN v ELSE f[x]]

EmptyMap == [x \in {} |-> None]

\* Sequences over S of length 0..n.
SeqUpTo(S, n) == UNION {[1..k -> S] : k \in 0..n}

----------------------------------------------------------------------------
(* Bone names.  A name is its text before a trailing " <digits>" part and   *)
(* that numeric part, if any: "doll arm" is Name("doll arm"), "doll arm 2"  *)
(* is NameIdx("doll arm", 2).                                               *)

Name(base) == [base |-> base, suffix |-> <<>>]
NameIdx(base, index) == [base |-> base, suffix |-> <<index>>]

----------------------------------------------------------------------------
(* skinnedanimation.py: KeyFrame, Frame, SkinnedAnimation                   *)

\* euclid.Vector3(x, y, z)
Vector3(x, y, z) == [x |-> x, y |-> y, z |-> z]

\* A KeyFrame with its five fields set.
KeyFrame(pivot, rotation, scale, zOrder, visible) ==
    [pivot |-> pivot, rotation |-> rotation, scale |-> scale,
     zOrder |-> zOrder, visible |-> visible]

\* Frame(): no keys.
Frame == EmptyMap

Hip == Name("doll hip")
Arm == Name("doll arm")
Hand == Name("doll hand")
Hair == Name("doll hair")
Leg == Name("doll leg")

KeyA == KeyFrame(<<0, 0>>, Vector3(0, 0, 0), Vector3(1, 1, 1), 0, TRUE)
KeyB == KeyFrame(<<2, 4>>, Vector3(0, 0, 6), Vector3(1, 3, 1), 1, TRUE)
KeyC == KeyFrame(<<4, 0>>, Vector3(0, 0, 2), Vector3(1, 1, 1), 1, FALSE)

\* The version the animation loader expects.
ANIMATION_VERSION == 1

\* The animation files the host can find (utils.findFile): name -> document.
\* "walk" carries two trailing frames without keys, "cycle" has ten frames,
\* "blink" a single frame, "stale" was written by another version of the
\* program; no file exists for any other name.
AnimationFiles ==
    [n \in {"blink", "cycle", "stale", "walk"} |->
        CASE n = "walk" ->
                [version |-> ANIMATION_VERSION,
                 frames |-> << (Hip :> KeyA) @@ (Arm :> KeyA), (Arm :> KeyB), Frame, Frame >>]
          [] n = "cycle" ->
                [version |-> ANIMATION_VERSION,
                 frames |-> << (Arm :> KeyA), Frame, Frame, Frame, Frame,
                               Frame, Frame, Frame, Frame, (Arm :> KeyB) >>]
          [] n = "blink" ->
                [version |-> ANIMATION_VERSION,
                 frames |-> << (Hair :> KeyC) >>]
          [] n = "stale" ->
                [version |-> ANIMATION_VERSION - 1,
                 frames |-> << (Hip :> KeyB), (Hip :> KeyA) >>]]

\* Track names in the order Python sorts them (tracks.sort(key=name)).
TrackOrder == <<"blink", "cycle", "ghost", "stale", "walk">>

\* A loader that raises for a missing file only.
loadRaisesMissingOnly(name) == name \notin DOMAIN AnimationFiles

\* loadAnimationFromFile raises for a missing file and for a version mismatch.
loadRaises(name) ==
    \/ name \notin DOMAIN AnimationFiles
    \/ AnimationFiles[name].version # ANIMATION_VERSION

\* loadAnimationFromFile(path).frames of a file that loads.
loadAnimationFromFile(name) == AnimationFiles[name].frames

----------------------------------------------------------------------------
(* skinnedanimation.py: bakeFrames, findKeyFrameRange, apply,               *)
(* cleanupDuplicateKeys.  Frames are numbered from 0 as in the code:        *)
(* frame i of the list frames is frames[i + 1].                             *)

Abs(x) == IF x < 0 THEN -x ELSE x

\* KeyFrame(): the five fields are None.
NewKeyFrame == KeyFrame(None, None, None, None, None)

\* copyKeyData(source, target): target with the five fields of source.
copyKeyData(source, target) ==
    [target EXCEPT !.pivot = source.pivot, !.rotation = source.rotation,
                   !.scale = source.scale, !.zOrder = source.zOrder,
                   !.visible = source.visible]

\* keyDataChanged(a, b)
keyDataChanged(a, b) ==
    \/ a.pivot # b.pivot
    \/ a.rotation # b.rotation
    \/ a.scale # b.scale
    \/ a.zOrder # b.zOrder
    \/ a.visible # b.visible

\* utils.interpolate(a, b, weight) for weight = num / den: a + (b - a) * weight.
\* The keys of the model hold multiples of Unit, so the quotient is exact.
interpolate(a, b, num, den) == a + ((b - a) * num) \div den

\* utils.interpolate2d
interpolate2d(a, b, num, den) ==
    <<interpolate(a[1], b[1], num, den), interpolate(a[2], b[2], num, den)>>

\* euclid.Vector3(*utils.interpolate3d(a, b, weight))
interpolate3d(a, b, num, den) ==
    Vector3(interpolate(a.x, b.x, num, den), interpolate(a.y, b.y, num, den),
            interpolate(a.z, b.z, num, den))

\* interpolateKeyData(a, b, weight) for weight = num / den
interpolateKeyData(a, b, num, den) ==
    KeyFrame(interpolate2d(a.pivot, b.pivot, num, den),
             interpolate3d(a.rotation, b.rotation, num, den),
             interpolate3d(a.scale, b.scale, num, den),
             a.zOrder, a.visible)

\* Frame.getBoneKey(name): the frame's key for name, a new KeyFrame if it
\* has none.
getBoneKey(frame, name) == IF name \in DOMAIN frame THEN frame[name] ELSE NewKeyFrame

\* SkinnedAnimation.getBoneKeyFrames(name): the frames that key name, ascending.
getBoneKeyFrames(frames, name) ==
    SelectSeq([i \in 1..Len(frames) |-> i - 1],
              LAMBDA i : name \in DOMAIN frames[i + 1])

\* SkinnedAnimation.getKeyBones
getKeyBones(frames) == UNION {DOMAIN frames[i] : i \in 1..Len(frames)}

\* A backward scan that starts one frame before frameNumber.
RECURSIVE scanBackBelow(_, _, _)
scanBackBelow(frames, i, boneName) ==
    IF i - 1 < 0 THEN None
    ELSE IF boneName \in DOMAIN frames[i] THEN Some(i - 1)
    ELSE scanBackBelow(frames, i - 1, boneName)

\* The first loop of findKeyFrameRange: "while i >= 0", from frameNumber down,
\* until a frame keys boneName.
RECURSIVE scanBack(_, _, _)
scanBack(frames, i, boneName) ==
    IF i < 0 THEN None
    ELSE IF boneName \in DOMAIN frames[i + 1] THEN Some(i)
    ELSE scanBack(frames, i - 1, boneName)

\* The second loop of findKeyFrameRange: "while i < len(frames)", from
\* frameNumber up, until a frame keys boneName.  frames[i] of a negative i is
\* read from the end of the list.
RECURSIVE scanForward(_, _, _)
scanForward(frames, i, boneName) ==
    IF i >= Len(frames) THEN None
    ELSE IF boneName \in DOMAIN frames[(i % Len(frames)) + 1] THEN Some(i)
    ELSE scanForward(frames, i + 1, boneName)

\* A range search that takes the key found on one side for the other side as
\* well when that side has none.
findKeyFrameRangeOneSided(frames, frameNumber, boneName) ==
    LET start == scanBack(frames, frameNumber, boneName)
        end == scanForward(frames, frameNumber, boneName)
    IN  [start |-> IF start = None THEN end ELSE start,
         end |-> IF end = None THEN start ELSE end]

\* SkinnedAnimation.findKeyFrameRange(frames, frameNumber, boneName) for
\* frameNumber < len(frames).  A negative frameNumber skips the first loop and
\* lets the second read frames[i] from the end of the list.
findKeyFrameRange(frames, frameNumber, boneName) ==
    [start |-> scanBack(frames, frameNumber, boneName),
     end |-> scanForward(frames, frameNumber, boneName)]

\* The while loop of bakeFrames for one bone: from the bone's last keyed
\* frame on, the stored keys are copied into baked going back and forth
\* through boneFrames.  Gives the baked frames and the i the loop ends with.
RECURSIVE bakeLoop(_, _, _, _, _, _, _)
bakeLoop(frames, baked, name, boneFrames, i, current, step) ==
    IF i >= Len(frames) THEN [baked |-> baked, i |-> i]
    ELSE LET index == boneFrames[current + 1]
             written == [baked EXCEPT ![i + 1] =
                            With(@, name, copyKeyData(frames[index + 1][name],
                                                      getBoneKey(@, name)))]
             moved == current + step
             current2 == IF moved = -1 THEN 1
                         ELSE IF moved = Len(boneFrames) THEN Len(boneFrames) - 2
                         ELSE moved
             step2 == IF moved = -1 THEN 1
                      ELSE IF moved = Len(boneFrames) THEN -1
                      ELSE step
             jump == Abs(boneFrames[current2 + 1] - index)
         IN  bakeLoop(frames, written, name, boneFrames, i + jump, current2, step2)

\* bakeFrames for one bone.  Frame.copy copies the dictionary and not the
\* KeyFrame objects: a key that baked[i] took over from frames[i] is the same
\* object, so the smoothing key written into the last baked frame is written
\* into the stored last frame too when that frame keys the bone.
bakeBone(frames, baked, name) ==
    LET boneFrames == getBoneKeyFrames(frames, name)
        last == Len(frames)
    IN  IF Len(boneFrames) > 1
        THEN LET looped == bakeLoop(frames, baked, name, boneFrames,
                                    boneFrames[Len(boneFrames)],
                                    Len(boneFrames) - 1, -1)
                 missing == looped.i - Len(frames)
                 end == findKeyFrameRange(frames, boneFrames[1], name).end
                 smooth == copyKeyData(frames[end[1] + 1][name],
                                       getBoneKey(looped.baked[last], name))
             IN  IF missing > 0 /\ end # None
                 THEN [frames |-> IF name \in DOMAIN frames[last]
                                  THEN [frames EXCEPT ![last] = With(@, name, smooth)]
                                  ELSE frames,
                       baked |-> [looped.baked EXCEPT ![last] = With(@, name, smooth)]]
                 ELSE [frames |-> frames, baked |-> looped.baked]
        ELSE [frames |-> frames, baked |-> baked]

\* The "for name in self.getKeyBones()" loop of bakeFrames.
RECURSIVE bakeBones(_, _, _)
bakeBones(frames, baked, names) ==
    IF names = {} THEN [frames |-> frames, baked |-> baked]
    ELSE LET name == CHOOSE n \in names : TRUE
             done == bakeBone(frames, baked, name)
         IN  bakeBones(done.frames, done.baked, names \ {name})

\* SkinnedAnimation.bakeFrames: the baked frames, and the stored frames as
\* the call leaves them.
bakeFrames(frames) == bakeBones(frames, frames, getKeyBones(frames))

\* apply's loop body for one bone: the bone as the call leaves it.
applyBone(baked, frameNumber, bone) ==
    LET range == findKeyFrameRange(baked, frameNumber, bone.name)
    IN  IF range.start # None /\ range.end # None
        THEN LET start == range.start[1]
                 end == range.end[1]
                 startKey == baked[start + 1][bone.name]
                 endKey == baked[(end % Len(baked)) + 1][bone.name]
             IN  IF start = end
                 THEN copyKeyData(startKey, bone)
                 ELSE copyKeyData(interpolateKeyData(startKey, endKey,
                                                     frameNumber - start, end - start),
                                  bone)
        ELSE bone

\* SkinnedAnimation.apply -> findKeyFrameRange reads frames[frameNumber] for
\* every bone: an IndexError when the index is past the last frame (a negative
\* index counts from the end of the list and does not raise).
applyRaises(frames, frameNumber, boneNames) ==
    boneNames # {} /\ frameNumber >= Len(frames)

\* SkinnedAnimation.apply(frameNumber, bones): the stored frames and the bones
\* as the call leaves them.  The frames are baked before the first bone is
\* looked up, so a call that raises has baked and has changed no bone.
apply(frames, frameNumber, bs) ==
    LET done == bakeFrames(frames)
    IN  IF applyRaises(frames, frameNumber, DOMAIN bs)
        THEN [frames |-> done.frames, bones |-> bs, raised |-> TRUE]
        ELSE [frames |-> done.frames,
              bones |-> [n \in DOMAIN bs |-> applyBone(done.baked, frameNumber, bs[n])],
              raised |-> FALSE]

\* cleanupDuplicateKeys with the key that is compared against marked as
\* well: the whole run of identical keys after its first one would go.
scanRunWholeRun(frames, name, keys, i, frameNumber) ==
    {keys[i2] : i2 \in {k \in (i + 1)..Len(keys) :
                           \A j \in (i + 1)..k :
                               ~keyDataChanged(frames[keys[i] + 1][name],
                                               frames[keys[j] + 1][name])}}

\* The inner loop of cleanupDuplicateKeys for the key at position i of keys:
\* the keys after it are compared with it until one differs; of two
\* identical keys the one at the edited frame is marked.
scanRun(frames, name, keys, i, frameNumber) ==
    LET same == {i2 \in (i + 1)..Len(keys) :
                    \A j \in (i + 1)..i2 :
                        ~keyDataChanged(frames[keys[i] + 1][name],
                                        frames[keys[j] + 1][name])}
    IN  IF same = {} THEN {}
        ELSE IF keys[i] = frameNumber THEN {keys[i]}
        ELSE {keys[i2] : i2 \in {k \in same : keys[k] = frameNumber}}

\* cleanupDuplicateKeys: the frames in which the bone's key is marked.
duplicates(frames, name, frameNumber) ==
    LET keys == getBoneKeyFrames(frames, name)
    IN  UNION {scanRun(frames, name, keys, i, frameNumber) : i \in 1..Len(keys)}

\* The final loop of cleanupDuplicateKeys without its "index > 0" test.
deletesKeyAnyFrame(index) == TRUE

\* cleanupDuplicateKeys: "if index > 0" before a marked key is deleted.
deletesKey(index) == index > 0

\* SkinnedAnimation.cleanupDuplicateKeys(bones, frameNumber): the frames it
\* leaves.  A bone's keys are only compared with that bone's keys.
cleanupDuplicateKeys(frames, boneNames, frameNumber) ==
    [i \in 1..Len(frames) |->
        [n \in {m \in DOMAIN frames[i] :
                   ~(/\ m \in boneNames
                     /\ (i - 1) \in duplicates(frames, m, frameNumber)
                     /\ deletesKey(i - 1))} |-> frames[i][n]]]

\* The event loop of SkinnedAnimation.update for one KEYDOWN of K_i: with Alt
\* the active bone's key of the frame is deleted, without it the key is set
\* from the bone.
keyEvent(frames, frameNumber, bs, activeBoneName, alt) ==
    IF activeBoneName = None \/ activeBoneName[1] \notin DOMAIN bs THEN frames
    ELSE LET name == activeBoneName[1]
         IN  IF alt
             THEN [frames EXCEPT ![frameNumber + 1] =
                      IF name \in DOMAIN @ THEN Without(@, name) ELSE @]
             ELSE [frames EXCEPT ![frameNumber + 1] =
                      With(@, name, copyKeyData(bs[name], getBoneKey(@, name)))]

RECURSIVE keyEvents(_, _, _, _, _, _)
keyEvents(frames, frameNumber, bs, activeBoneName, events, i) ==
    IF i > Len(events) THEN frames
    ELSE keyEvents(keyEvent(frames, frameNumber, bs, activeBoneName, events[i].alt),
                   frameNumber, bs, activeBoneName, events, i + 1)

NoAnim == [op |-> "none", frame |-> 0, before |-> <<>>, rig |-> EmptyMap,
           raised |-> FALSE]

\* A call of SkinnedAnimation.update(frameNumber, editor) at a frame of the
\* animation: the K_i events of the tick, then cleanupDuplicateKeys.  before
\* is what cleanupDuplicateKeys is handed.
UpdateAnimation(frameNumber, events) ==
    LET keyed == keyEvents(anim, frameNumber, bones, store.activeBoneName, events, 1)
    IN  /\ frameNumber < Len(anim)
        /\ anim' = cleanupDuplicateKeys(keyed, DOMAIN bones, frameNumber)
        /\ lastAnim' = [op |-> "update", frame |-> frameNumber, before |-> keyed,
                        rig |-> bones, raised |-> FALSE]
        /\ UNCHANGED <<rigVars, playerVars, fileVars, editVars, renderVars>>

\* A call of SkinnedAnimation.apply(frameNumber, bones) on the animation at
\* hand with the rig's bones.
Apply(frameNumber) ==
    LET r == apply(anim, frameNumber, bones)
    IN  /\ anim' = r.frames
        /\ bones' = r.bones
        /\ lastAnim' = [op |-> "apply", frame |-> frameNumber, before |-> anim,
                        rig |-> bones, raised |-> r.raised]
        /\ UNCHANGED <<lastRig, playerVars, fileVars, editVars, renderVars>>

----------------------------------------------------------------------------
(* skinnedplayer.py: TrackInfo, Track                                       *)

TrackInfo(name, repeat, cyclic, reverse, autoEnd, clip, speed, fps) ==
    [name |-> name, repeat |-> repeat, cyclic |-> cyclic, reverse |-> reverse,
     autoEnd |-> autoEnd, clip |-> clip, speed |-> speed, fps |-> fps]

\* A loop that goes on past frame 0 ("while i >= 0").
RECURSIVE clipIndexPastFirst(_, _)
clipIndexPastFirst(frames, i) ==
    IF i >= 0 /\ DOMAIN frames[i + 1] = {} THEN clipIndexPastFirst(frames, i - 1) ELSE i

\* clipAnimation's loop: the 0-based index of the last frame that is kept.
RECURSIVE clipIndex(_, _)
clipIndex(frames, i) ==
    IF i > 0 /\ DOMAIN frames[i + 1] = {} THEN clipIndex(frames, i - 1) ELSE i

\* Track.clipAnimation: frames[:i + 1]
clipAnimation(frames) == SubSeq(frames, 1, clipIndex(frames, Len(frames) - 1) + 1)

\* Track.__init__ for a file that loads.
Track(info, startTime) ==
    [info |-> info,
     startTime |-> startTime,
     animation |-> IF info.clip
                   THEN clipAnimation(loadAnimationFromFile(info.name))
                   ELSE loadAnimationFromFile(info.name)]

\* Track.__init__ from the loading of the animation on: the animation at hand
\* is what the loader gave, and it is clipped if info.clip is set.
ClipAnimation(clip) ==
    /\ anim' = IF clip THEN clipAnimation(anim) ELSE anim
    /\ lastAnim' = [op |-> IF clip THEN "clip" ELSE "load", frame |-> 0,
                    before |-> anim, rig |-> bones, raised |-> FALSE]
    /\ UNCHANGED <<rigVars, playerVars, fileVars, editVars, renderVars>>

\* int(round(x)) of Python 2 for x = num / den >= 0: halves round away from zero.
roundInt(num, den) == (2 * num + den) \div (2 * den)

\* Track.getFrameIndex: delta is in ticks, so delta * fps is in 1/ClockHz frames.
getFrameIndex(track, currentTime) ==
    LET delta == (currentTime - track.startTime) * track.info.speed
    IN  roundInt(delta * track.info.fps, ClockHz)

getFrameIndexClamped(track, currentTime) ==
    LET index == getFrameIndex(track, currentTime)
        frameCount == Len(track.animation)
    IN  Min(frameCount - 1, index)

getFrameIndexRepeat(track, currentTime) ==
    LET index == getFrameIndex(track, currentTime)
    IN  index % Len(track.animation)

\* A plausible slip: the reversing pass mirrored about the last frame.
getFrameIndexCyclicMirrored(track, currentTime) ==
    LET index == getFrameIndex(track, currentTime)
        frameCount == Len(track.animation)
        reversing == (index \div frameCount) % 2
        realIndex == index % frameCount
    IN  IF reversing # 0 THEN (frameCount - 1) - realIndex ELSE realIndex

getFrameIndexCyclic(track, currentTime) ==
    LET index == getFrameIndex(track, currentTime)
        frameCount == Len(track.animation)
        reversing == (index \div frameCount) % 2
        realIndex == index % frameCount
    IN  IF reversing # 0 THEN frameCount - realIndex ELSE realIndex

\* isAtEnd with a strict comparison: past the last frame, never on it.
isAtEndStrict(track, currentTime) ==
    LET index == getFrameIndexClamped(track, currentTime)
        lastFrame == Len(track.animation) - 1
    IN  index > lastFrame

isAtEnd(track, currentTime) ==
    LET index == getFrameIndexClamped(track, currentTime)
        lastFrame == Len(track.animation) - 1
    IN  index >= lastFrame

----------------------------------------------------------------------------
(* skinnedplayer.py: AnimationPlayer                                        *)

\* A start that gives every track the clock the player began with.
startAnimationAtZero(trs, info, now) == With(trs, info.name, Track(info, 0))

\* AnimationPlayer.startAnimation for a file that loads.
startAnimation(trs, info, now) == With(trs, info.name, Track(info, now))

\* AnimationPlayer.stopAnimation
stopAnimation(trs, name) == Without(trs, name)

\* play() with the membership test dropped: every listed track is restarted.
shouldStartAlways(trs, info) == TRUE

\* play(): "if not info.name in self.data.tracks"
shouldStart(trs, info) == info.name \notin DOMAIN trs

\* play() with the comparison of the stop loop inverted.
shouldStopListed(names, name) == name \in Range(names)

\* play(): "if not name in names"
shouldStop(names, name) == name \notin Range(names)

\* The first loop of play(): start every listed track that is not running.
\* A load that raises ends the call there, with the tracks started so far.
RECURSIVE startTracks(_, _, _, _)
startTracks(trs, infos, i, now) ==
    IF i > Len(infos) THEN [tracks |-> trs, raised |-> "none"]
    ELSE IF ~shouldStart(trs, infos[i]) THEN startTracks(trs, infos, i + 1, now)
    ELSE IF loadRaises(infos[i].name) THEN [tracks |-> trs, raised |-> "load"]
    ELSE startTracks(startAnimation(trs, infos[i], now), infos, i + 1, now)

\* updateTrack up to the call of apply: whether apply is called, and with
\* which frame index.
updateTrack(track, currentTime) ==
    IF track.info.autoEnd /\ isAtEnd(track, currentTime)
    THEN [applies |-> FALSE, frameIndex |-> 0]
    ELSE LET frameIndex ==
                 IF track.info.cyclic THEN getFrameIndexCyclic(track, currentTime)
                 ELSE IF track.info.repeat THEN getFrameIndexRepeat(track, currentTime)
                 ELSE getFrameIndexClamped(track, currentTime)
         IN  [applies |-> TRUE,
              frameIndex |-> IF track.info.reverse
                             THEN (Len(track.animation) - 1) - frameIndex
                             ELSE frameIndex]

\* The running tracks in descending name order.
sortedTracksDescending(trs) ==
    [i \in 1..Cardinality(DOMAIN trs) |->
        SelectSeq(TrackOrder, LAMBDA n : n \in DOMAIN trs)[
            Cardinality(DOMAIN trs) + 1 - i]]

\* updateAnimations: the running tracks in ascending name order.
sortedTracks(trs) == SelectSeq(TrackOrder, LAMBDA n : n \in DOMAIN trs)

\* updateAnimations: updateTrack for every track of order from position i on.
\* apply bakes the track's animation and poses the bones; applied lists the
\* apply calls made, raised tells whether one of them raised.
RECURSIVE updateAnimations(_, _, _, _, _, _)
RECURSIVE updateApplied(_, _, _, _, _, _, _)
RECURSIVE updateNext(_, _, _, _, _, _, _)
updateAnimations(trs, order, i, now, bs, applied) ==
    IF i > Len(order)
    THEN [tracks |-> trs, bones |-> bs, applied |-> applied, raised |-> "none"]
    ELSE updateNext(trs, order, i, now, bs, applied, updateTrack(trs[order[i]], now))

\* updateTrack from its decision u on: the call of apply, if it is made.
updateNext(trs, order, i, now, bs, applied, u) ==
    IF ~u.applies
    THEN updateAnimations(trs, order, i + 1, now, bs, applied)
    ELSE updateApplied(trs, order, i, now, bs,
                       Append(applied, [name |-> order[i], frameIndex |-> u.frameIndex,
                                        frameCount |-> Len(trs[order[i]].animation)]),
                       apply(trs[order[i]].animation, u.frameIndex, bs))

\* updateAnimations after the call of apply that gave done.
updateApplied(trs, order, i, now, bs, applied, done) ==
    IF done.raised
    THEN [tracks |-> [trs EXCEPT ![order[i]].animation = done.frames], bones |-> bs,
          applied |-> applied, raised |-> "index"]
    ELSE updateAnimations([trs EXCEPT ![order[i]].animation = done.frames],
                          order, i + 1, now, done.bones, applied)

\* The stop loop of play(): remove every running track that is not listed.
stopUnlisted(trs, names) ==
    [n \in {m \in DOMAIN trs : ~shouldStop(names, m)} |-> trs[n]]

\* AnimationPlayer.getAnimatedBoneNames
getAnimatedBoneNames(trs, now) ==
    UNION {UNION {DOMAIN trs[n].animation[f] : f \in 1..Len(trs[n].animation)} :
           n \in {m \in DOMAIN trs : ~(trs[m].info.autoEnd /\ isAtEnd(trs[m], now))}}

\* restBones -> restBone reads a.translation, an attribute that neither
\* SkinningBone.__init__ nor apply sets: the first bone that is rested raises
\* AttributeError before anything is assigned.
restBonesRaises(trs, now, boneNames) ==
    boneNames \ getAnimatedBoneNames(trs, now) # {}

\* play() after the stop loop: restBones.
playKept(updated, kept, rest, now, boneNames) ==
    [tracks |-> kept, bones |-> updated.bones,
     raised |-> IF rest /\ restBonesRaises(kept, now, boneNames)
                THEN "attribute" ELSE "none",
     applied |-> updated.applied]

\* play() after updateAnimations: the stop loop and the rest of the call.
playUpdated(updated, names, rest, now, boneNames) ==
    IF updated.raised # "none"
    THEN [tracks |-> updated.tracks, bones |-> updated.bones,
          raised |-> updated.raised, applied |-> updated.applied]
    ELSE playKept(updated, stopUnlisted(updated.tracks, names), rest, now, boneNames)

\* play() after its first loop: updateAnimations and the rest of the call.
playStarted(started, names, rest, now, bs) ==
    IF started.raised # "none"
    THEN [tracks |-> started.tracks, bones |-> bs, raised |-> started.raised,
          applied |-> <<>>]
    ELSE playUpdated(updateAnimations(started.tracks, sortedTracks(started.tracks),
                                      1, now, bs, <<>>),
                     names, rest, now, DOMAIN bs)

\* AnimationPlayer.play(infos, rest): the tracks and the bones it leaves and
\* how it ends.
play(trs, infos, rest, now, bs) ==
    playStarted(startTracks(trs, infos, 1, now),
                [i \in 1..Len(infos) |-> infos[i].name], rest, now, bs)

NoCall == [op |-> "none", tag |-> "", infos |-> <<>>, names |-> <<>>,
           rest |-> FALSE, time |-> 0, before |-> {}, raised |-> "none",
           applied |-> <<>>]

\* The tag of the player the scenes follow.
DefaultTag == "doll"

\* AnimationPlayer.__init__: fullTag = "animationPlayer-" + tag
FullTag(tag) == <<"animationPlayer-", tag>>

\* A constructor that gives every player an AnimationData of its own.
AnimationPlayerFresh(st, tag) == EmptyMap

\* AnimationPlayer.__init__: self.data = context.store.get(fullTag,
\* AnimationData()), the tracks of the data the store holds under the full tag
\* or of a new one; the constructor puts that object into the store, where
\* what the player does to its tracks is seen.
AnimationPlayer(st, tag) ==
    IF FullTag(tag) \in DOMAIN st THEN st[FullTag(tag)] ELSE EmptyMap

\* AnimationPlayer(context, tag).play(infos, rest) by the host.
PlayTagged(tag, infos, rest) ==
    \E data \in {AnimationPlayer(playerStore, tag)} :
    \E r \in {play(data, infos, rest, time, bones)} :
        /\ tracks' = r.tracks
        /\ playerStore' = With(playerStore, FullTag(tag), r.tracks)
        /\ bones' = r.bones
        /\ lastPlay' = [op |-> "play", tag |-> tag, infos |-> infos,
                        names |-> [i \in 1..Len(infos) |-> infos[i].name],
                        rest |-> rest, time |-> time, before |-> DOMAIN data,
                        raised |-> r.raised, applied |-> r.applied]
        /\ UNCHANGED <<time, lastRig, fileVars, animVars, editVars, renderVars>>

\* AnimationPlayer(context, tag).stopAnimation(name) by the host; del raises
\* KeyError for a name that is not running.
StopTagged(tag, name) ==
    \E data \in {AnimationPlayer(playerStore, tag)} :
    \E left \in {IF name \in DOMAIN data THEN stopAnimation(data, name) ELSE data} :
        /\ tracks' = left
        /\ playerStore' = With(playerStore, FullTag(tag), left)
        /\ lastPlay' = [NoCall EXCEPT !.op = "stop", !.tag = tag, !.names = <<name>>,
                          !.time = time, !.before = DOMAIN data,
                          !.raised = IF name \in DOMAIN data THEN "none" ELSE "key"]
        /\ UNCHANGED <<time, rigVars, fileVars, animVars, editVars, renderVars>>

\* One call of play by the host on the player of the scene.
Play(infos, rest) == PlayTagged(DefaultTag, infos, rest)

\* One call of stopAnimation by the host on the player of the scene.
StopAnimation(name) == StopTagged(DefaultTag, name)

\* The host advances context.time between two calls; it never decreases.
Tick(d, limit) ==
    /\ time + d <= limit
    /\ time' = time + d
    /\ UNCHANGED <<tracks, playerStore, lastPlay, rigVars, fileVars, animVars, editVars, renderVars>>

----------------------------------------------------------------------------
(* skinned.py: Image, Bone;  skin.py: SkinnedImage, SkinningBone            *)

\* skinned.Image / skin.SkinnedImage
Image(name, x, y, width, height) ==
    [name |-> name, x |-> x, y |-> y, width |-> width, height |-> height]

\* skinned.Bone.__init__
Bone(name) ==
    [name |-> name, children |-> <<>>, parent |-> None, image |-> None,
     pos |-> <<0, 0>>, pivot |-> <<0, 0>>,
     rotation |-> Vector3(0, 0, 0), scale |-> Vector3(1, 1, 1),
     zOrder |-> -1, visible |-> TRUE, wireFrame |-> FALSE, color |-> <<0, 0, 0>>,
     vertices |-> None, indices |-> None, boneWeights |-> None, boneIndices |-> None,
     points |-> <<>>, triangles |-> <<>>]

\* skin.SkinningBone.__init__
SkinningBone(name) ==
    [name |-> name, children |-> <<>>, parent |-> None, image |-> None,
     pos |-> <<0, 0>>, pivot |-> <<0, 0>>,
     rotation |-> Vector3(0, 0, 0), scale |-> Vector3(1, 1, 1),
     zOrder |-> -1, visible |-> TRUE, wireFrame |-> FALSE,
     mesh |-> None, points |-> <<>>, triangles |-> <<>>]

\* skinnedmesh.SkinnedMesh(vertices, indices, boneWeights, boneIndices)
SkinnedMesh(vertices, indices, boneWeights, boneIndices) ==
    [vertices |-> vertices, indices |-> indices,
     boneWeights |-> boneWeights, boneIndices |-> boneIndices]

\* The loops of updateVerticesFromTriangles and updateMeshFromTriangles visit
\* every point of every entry of the triangle list, in order.
RECURSIVE trianglePoints(_)
trianglePoints(triangles) ==
    IF triangles = <<>> THEN <<>>
    ELSE Head(triangles) \o trianglePoints(Tail(triangles))

\* "indices.append(len(verts) / stride)": the index without the "- 1".
vertexIndexFromOne(length, stride) == length \div stride

\* "indices.append(len(verts) / stride - 1)" once the point's numbers are in
\* verts; "/" divides integers.
vertexIndex(length, stride) == length \div stride - 1

\* "v[0] / float(w)" for the points used here, the corners of the image, where
\* the quotient is 0 or 1.
uvOf(v, size) == v \div size

\* skinned.Bone.updateVerticesFromTriangles: x, y, xUv, yUv for every point;
\* RuntimeError when a third of the vertex count is not the triangle count.
updateVerticesFromTriangles(bone) ==
    LET points == trianglePoints(bone.triangles)
        w == bone.image[1].width
        h == bone.image[1].height
        verts == [i \in 1..(4 * Len(points)) |->
                     LET v == points[(i - 1) \div 4 + 1] IN
                     CASE (i - 1) % 4 = 0 -> v[1]
                       [] (i - 1) % 4 = 1 -> v[2]
                       [] (i - 1) % 4 = 2 -> uvOf(v[1], w)
                       [] OTHER -> uvOf(v[2], h)]
        indices == [k \in 1..Len(points) |-> vertexIndex(4 * k, 4)]
        vCount == (Len(verts) \div 4) \div 3
    IN  IF vCount # Len(bone.triangles)
        THEN [bone |-> bone, raised |-> TRUE]
        ELSE [bone |-> [bone EXCEPT !.vertices = Some(verts), !.indices = Some(indices)],
              raised |-> FALSE]

\* skin.SkinningBone.updateMeshFromTriangles: x, y for every point.
updateMeshFromTriangles(bone) ==
    LET points == trianglePoints(bone.triangles)
        verts == [i \in 1..(2 * Len(points)) |->
                     LET v == points[(i - 1) \div 2 + 1] IN
                     IF (i - 1) % 2 = 0 THEN v[1] ELSE v[2]]
        indices == [k \in 1..Len(points) |-> vertexIndex(2 * k, 2)]
        vCount == (Len(verts) \div 2) \div 3
    IN  IF vCount # Len(bone.triangles)
        THEN [bone |-> bone, raised |-> TRUE]
        ELSE [bone |-> [bone EXCEPT !.mesh = Some(SkinnedMesh(Some(verts), Some(indices),
                                                              None, None))],
              raised |-> FALSE]

----------------------------------------------------------------------------
(* skinnededitor.py: SkinnedEditor.connectBone, ExtrudeBone                 *)

\* "x in list"
InList(x, list) == \E i \in 1..Len(list) : list[i] = x

\* list.remove(x): the list without the first occurrence of x.
RemoveFirst(list, x) ==
    LET at == CHOOSE i \in 1..Len(list) :
                  list[i] = x /\ \A j \in 1..(i - 1) : list[j] # x
    IN  SubSeq(list, 1, at - 1) \o SubSeq(list, at + 1, Len(list))

\* connectBone's oldParent: bones[poseBone.parent] if that name is a bone.
oldParentOf(bs, boneName) ==
    IF bs[boneName].parent # None /\ bs[boneName].parent[1] \in DOMAIN bs
    THEN bs[boneName].parent
    ELSE None

\* connectBone raises where list.remove does: the old parent does not list
\* the bone although its parent field names it.
connectBoneRaises(bs, boneName, parentName) ==
    /\ ~InList(boneName, bs[parentName].children)
    /\ oldParentOf(bs, boneName) # None
    /\ ~InList(boneName, bs[oldParentOf(bs, boneName)[1]].children)

\* connectBone without its "not in newParent.children" test: the bone leaves
\* the list of another old parent and is appended on every call.
connectBoneUnguarded(bs, boneName, parentName) ==
    LET oldParent == oldParentOf(bs, boneName)
        removed == IF oldParent # None /\ oldParent[1] # parentName
                   THEN [bs EXCEPT ![oldParent[1]].children = RemoveFirst(@, boneName)]
                   ELSE bs
        appended == [removed EXCEPT ![parentName].children = Append(@, boneName)]
    IN  [appended EXCEPT ![boneName].parent = Some(appended[parentName].name)]

\* connectBone that forgets to take the bone out of its old parent's list.
connectBoneKeepsOld(bs, boneName, parentName) ==
    IF ~InList(boneName, bs[parentName].children)
    THEN LET appended == [bs EXCEPT ![parentName].children = Append(@, boneName)]
         IN  [appended EXCEPT ![boneName].parent = Some(appended[parentName].name)]
    ELSE bs

\* connectBone that hangs the new parent below the bone instead.
connectBoneSwapped(bs, boneName, parentName) ==
    IF ~InList(boneName, bs[parentName].children)
    THEN LET appended == [bs EXCEPT ![boneName].children = Append(@, parentName)]
         IN  [appended EXCEPT ![parentName].parent = Some(appended[boneName].name)]
    ELSE bs

\* SkinnedEditor.connectBone(boneName, parentName), for a call that does not raise.
connectBone(bs, boneName, parentName) ==
    LET oldParent == oldParentOf(bs, boneName)
    IN  IF ~InList(boneName, bs[parentName].children)
        THEN LET removed == IF oldParent # None
                            THEN [bs EXCEPT ![oldParent[1]].children =
                                                RemoveFirst(@, boneName)]
                            ELSE bs
                 appended == [removed EXCEPT ![parentName].children =
                                                Append(@, boneName)]
             IN  [appended EXCEPT ![boneName].parent = Some(appended[parentName].name)]
        ELSE bs

\* ExtrudeBone.findNextFreeBoneName: "%s %i" % (base, index) for the least
\* index from 1 on that is not a bone's name.
RECURSIVE findNextFreeBoneName(_, _, _)
findNextFreeBoneName(bs, base, index) ==
    IF NameIdx(base, index) \notin DOMAIN bs
    THEN NameIdx(base, index)
    ELSE findNextFreeBoneName(bs, base, index + 1)

\* An extrude that puts the new bone's pivot on its parent's.
extrudeApplyAtParent(bs, parentName, mouse) ==
    LET parent == bs[parentName]
        newName == findNextFreeBoneName(bs, parent.name.base, 1)
        bone == [Bone(newName) EXCEPT !.pivot = parent.pivot,
                                      !.zOrder = parent.zOrder + 1]
    IN  connectBone(With(bs, newName, bone), newName, parent.name)

\* ExtrudeBone.apply: the bones after the commit of an extrude that was
\* started on the bone parentName, with the pointer at mouse.
extrudeApply(bs, parentName, mouse) ==
    LET parent == bs[parentName]
        newName == findNextFreeBoneName(bs, parent.name.base, 1)
        bone == [Bone(newName) EXCEPT !.pivot = mouse, !.zOrder = parent.zOrder + 1]
    IN  connectBone(With(bs, newName, bone), newName, parent.name)

\* SkinningBone.getAllChildren: the bones below boneName, through the
\* children lists, to depth levels.
RECURSIVE getAllChildren(_, _, _)
getAllChildren(bs, boneName, depth) ==
    IF depth = 0 THEN {}
    ELSE LET direct == Range(bs[boneName].children) \cap DOMAIN bs
         IN  direct \cup UNION {getAllChildren(bs, c, depth - 1) : c \in direct}

NoEdit == [op |-> "none", bone |-> None, parent |-> None, raised |-> FALSE]

\* A call of SkinnedEditor.connectBone with the names of two bones.
ConnectBone(boneName, parentName) ==
    /\ boneName \in DOMAIN bones /\ parentName \in DOMAIN bones
    /\ bones' = IF connectBoneRaises(bones, boneName, parentName)
                THEN bones
                ELSE connectBone(bones, boneName, parentName)
    /\ lastRig' = [op |-> "connect", bone |-> Some(boneName),
                   parent |-> Some(parentName),
                   raised |-> connectBoneRaises(bones, boneName, parentName)]
    /\ UNCHANGED <<playerVars, fileVars, animVars, editVars, renderVars>>

\* connectBone as its documented precondition allows it: the new parent is
\* neither the bone itself nor a bone below it.
ConnectBoneChecked(boneName, parentName) ==
    /\ boneName \in DOMAIN bones /\ parentName \in DOMAIN bones
    /\ parentName \notin
           {boneName} \cup getAllChildren(bones, boneName, Cardinality(DOMAIN bones))
    /\ ConnectBone(boneName, parentName)

\* The mesh of the bone boneName is built from its triangle list, by the
\* module the bone is of.
UpdateMesh(boneName) ==
    /\ boneName \in DOMAIN bones
    /\ bones[boneName].image # None
    /\ \E built \in {IF "mesh" \in DOMAIN bones[boneName]
                     THEN updateMeshFromTriangles(bones[boneName])
                     ELSE updateVerticesFromTriangles(bones[boneName])} :
           /\ bones' = [bones EXCEPT ![boneName] = built.bone]
           /\ lastRig' = [op |-> "mesh", bone |-> Some(boneName), parent |-> None,
                          raised |-> built.raised]
    /\ UNCHANGED <<playerVars, fileVars, animVars, editVars, renderVars>>

\* The commit (mouse button 1) of an extrude started on the bone parentName.
ExtrudeCommit(parentName, mouse) ==
    /\ parentName \in DOMAIN bones
    /\ Cardinality(DOMAIN bones) < MaxBones
    /\ bones' = extrudeApply(bones, parentName, mouse)
    /\ lastRig' = [op |-> "extrude",
                   bone |-> Some(findNextFreeBoneName(bones, bones[parentName].name.base, 1)),
                   parent |-> Some(parentName), raised |-> FALSE]
    /\ UNCHANGED <<playerVars, fileVars, animVars, editVars, renderVars>>

----------------------------------------------------------------------------
(* skinnededitor.py: the editor's store, picking, drags, modal edits        *)

\* The pointer is on the line y = 0 and so is every pivot, which makes every
\* angle the editor measures a multiple of a quarter turn; angles are in
\* degrees.

PICK_DISTANCE_PIVOT == 20
PICK_DISTANCE_CROP == 5

Max(a, b) == IF a < b THEN b ELSE a

\* context.store before the editor's first update: every key reads as None.
\* active is PoseMode.active of the mode kept under MODE.
NoStore == [activeBoneName |-> None, mouse |-> None, dragPivot |-> None,
            dragPos |-> None, active |-> None]

\* math.atan2(y, x) in degrees, for the directions along the axes.
atan2(y, x) ==
    CASE y = 0 /\ x >= 0 -> 0
      [] y = 0 /\ x < 0 -> 180
      [] x = 0 /\ y > 0 -> 90
      [] x = 0 /\ y < 0 -> -90

\* The square of lineToPoint(a, b, point) for a segment along an axis, as
\* getImageLines gives them: the nearest point of the segment has each
\* coordinate of point clamped to the segment.
lineToPointSquared(a, b, point) ==
    LET x == Max(Min(a[1], b[1]), Min(point[1], Max(a[1], b[1])))
        y == Max(Min(a[2], b[2]), Min(point[2], Max(a[2], b[2])))
        dx == x - point[1]
        dy == y - point[2]
    IN  dx * dx + dy * dy

\* SkinnedEditor.getImageLines(bone) for a bone that has an image.
getImageLines(bone) ==
    LET pos == bone.pos
        image == bone.image[1]
    IN  <<pos, <<pos[1] + image.width, pos[2]>>,
          <<pos[1] + image.width, pos[2] + image.height>>,
          <<pos[1], pos[2] + image.height>>, pos>>

\* The bones below and including boneName, parents before children and
\* children in list order, to depth levels.
RECURSIVE walkBones(_, _, _)
walkBones(bs, boneName, depth) ==
    IF depth = 0 \/ boneName \notin DOMAIN bs THEN <<>>
    ELSE LET children == bs[boneName].children
             RECURSIVE below(_)
             below(k) == IF k > Len(children) THEN <<>>
                         ELSE walkBones(bs, children[k], depth - 1) \o below(k + 1)
         IN  <<boneName>> \o below(1)

\* renderer.computeBoneTransforms(context): one transform per bone, from the
\* root down; here the bones in that order.
computeBoneTransforms(bs) ==
    LET roots == {n \in DOMAIN bs : bs[n].parent = None}
    IN  IF roots = {} THEN <<>>
        ELSE walkBones(bs, CHOOSE n \in roots : TRUE, Cardinality(DOMAIN bs))

\* SkinnedEditor.getBonePivotTransformed(bone): the bone's matrix applied to
\* its pivot.  A bone's own rotation and scale turn about the pivot and leave
\* it in place; the matrices of the bones above it are taken as the identity.
getBonePivotTransformed(bs, boneName) == bs[boneName].pivot

\* The square of (a - b).magnitude()
distanceSquared(a, b) == (a[1] - b[1]) * (a[1] - b[1]) + (a[2] - b[2]) * (a[2] - b[2])

\* SkinnedEditor.pickPivot(pos): of the bones with a transform whose pivot is
\* nearer than PICK_DISTANCE_PIVOT the nearest one, the first of them in
\* transforms order.
pickPivot(bs, transforms, pos) ==
    LET distance(k) == distanceSquared(getBonePivotTransformed(bs, transforms[k]), pos)
        near == {k \in 1..Len(transforms) :
                    distance(k) < PICK_DISTANCE_PIVOT * PICK_DISTANCE_PIVOT}
        closest == CHOOSE k \in near :
                       \A j \in near : distance(k) < distance(j)
                                       \/ (distance(k) = distance(j) /\ k <= j)
    IN  IF near = {} THEN None ELSE Some(transforms[closest])

\* SkinnedEditor.pickCrop(pos): of the bones with a transform and an image
\* that have an edge nearer than PICK_DISTANCE_CROP the one with the nearest
\* edge, the first of them in transforms order.
pickCrop(bs, transforms, pos) ==
    LET edge(k) ==
            LET lines == getImageLines(bs[transforms[k]])
                d(i) == lineToPointSquared(lines[i], lines[i + 1], pos)
            IN  d(CHOOSE i \in 1..4 : \A j \in 1..4 : d(i) <= d(j))
        near == {k \in 1..Len(transforms) :
                    /\ bs[transforms[k]].image # None
                    /\ edge(k) < PICK_DISTANCE_CROP * PICK_DISTANCE_CROP}
        closest == CHOOSE k \in near :
                       \A j \in near : edge(k) < edge(j)
                                       \/ (edge(k) = edge(j) /\ k <= j)
    IN  IF near = {} THEN None ELSE Some(transforms[closest])

\* AttributeEdit.getValue for the two attributes PoseMode edits.
getValue(bone, attribute) ==
    IF attribute = "rotation.z" THEN bone.rotation.z ELSE bone.scale.y

\* AttributeEdit.setValue
setValue(bone, attribute, value) ==
    IF attribute = "rotation.z"
    THEN [bone EXCEPT !.rotation.z = value]
    ELSE [bone EXCEPT !.scale.y = value]

\* AttributeEdit.__init__(editor, bone, attribute, mouse)
AttributeEdit(bs, boneName, attribute, mouse) ==
    LET original == getValue(bs[boneName], attribute)
        pivot == getBonePivotTransformed(bs, boneName)
    IN  [kind |-> "attribute", bone |-> boneName, attribute |-> attribute,
         mouse |-> mouse, original |-> original, pivot |-> pivot,
         value |-> original + atan2(mouse[1] - pivot[1], mouse[2] - pivot[2])]

\* ExtrudeBone.__init__(editor, bone, mouse)
ExtrudeBone(bs, boneName, mouse) ==
    [kind |-> "extrude", bone |-> boneName, attribute |-> "", mouse |-> mouse,
     original |-> 0, pivot |-> getBonePivotTransformed(bs, boneName), value |-> 0]

\* A cancel that leaves the edited value in place.
editCancelKeeps(bs, edit) == bs

\* AttributeEdit.cancel / ExtrudeBone.cancel: the bones afterwards.
editCancel(bs, edit) ==
    IF edit.kind = "attribute"
    THEN [bs EXCEPT ![edit.bone] = setValue(@, edit.attribute, edit.original)]
    ELSE bs

\* AttributeEdit.update / ExtrudeBone.update with the pointer at mouse.
editUpdate(bs, edit, mouse) ==
    IF edit.kind = "attribute"
    THEN LET angle == atan2(mouse[1] - edit.pivot[1], mouse[2] - edit.pivot[2])
         IN  [bs EXCEPT ![edit.bone] = setValue(@, edit.attribute, edit.value - angle)]
    ELSE bs

\* SkinnedEditor.getActiveBone: the name of the active bone if it is a bone.
getActiveBone(bs, st) ==
    IF st.activeBoneName # None /\ st.activeBoneName[1] \in DOMAIN bs
    THEN st.activeBoneName
    ELSE None

\* SkinnedEditor.stopDrag
stopDrag(st) == [st EXCEPT !.dragPivot = None, !.dragPos = None]

\* The events of the host: a key press, a pointer button going down or up,
\* a pointer move; each comes with the pointer's position.
KeyDown(unicode, pos) == [type |-> "KEYDOWN", unicode |-> unicode, button |-> 0, pos |-> pos]
MouseButtonDown(button, pos) ==
    [type |-> "MOUSEBUTTONDOWN", unicode |-> "", button |-> button, pos |-> pos]
MouseMotion(pos) == [type |-> "MOUSEMOTION", unicode |-> "", button |-> 0, pos |-> pos]
MouseButtonUp(pos) == [type |-> "MOUSEBUTTONUP", unicode |-> "", button |-> 1, pos |-> pos]

\* What an update of the editor leaves to look at, besides the store and the
\* bones: the tick's events and settings, whether it raised, and of the modal
\* edits
\*   began: the edited bone's rotation.z and scale.y before the active edit
\*          was started, and whether no edit was active then;
\*   chain: the same values before the first edit of the run of edits that
\*          superseded each other without a click in between;
\*   ended: the edit the last event's click ended, the button, the value of
\*          its attribute before the click, and began and chain of before.
NoEvent == [events |-> <<>>,
            settings |-> [pivots |-> FALSE, imageAreas |-> FALSE, wireframe |-> FALSE],
            raised |-> FALSE,
            began |-> None, chain |-> None, ended |-> None]

\* The editor while it handles a tick: the bones, the store, self.mouse,
\* whether an exception left the update, and the record of the modal edits.
Editor(bs, st, seen) ==
    [bones |-> bs, store |-> st, mouse |-> st.mouse, raised |-> FALSE,
     began |-> seen.began, chain |-> seen.chain, ended |-> None]

\* PoseMode.newEdit(edit): the edit it replaces is cancelled first.
newEdit(ed, edit) ==
    [ed EXCEPT !.bones = IF ed.store.active # None
                         THEN editCancel(ed.bones, ed.store.active[1])
                         ELSE ed.bones,
               !.store.active = Some(edit)]

\* What PoseMode.handleEvent records of an edit that a key starts on bone.
startEdit(ed, boneName, edit) ==
    LET values == [rotation |-> ed.bones[boneName].rotation.z,
                   scale |-> ed.bones[boneName].scale.y]
        superseded == ed.store.active
        started == newEdit(ed, edit)
    IN  IF edit.kind = "attribute"
        THEN [started EXCEPT
                 !.began = Some([rotation |-> values.rotation, scale |-> values.scale,
                                 alone |-> superseded = None]),
                 !.chain = IF /\ superseded # None
                              /\ superseded[1].kind = "attribute"
                              /\ superseded[1].bone = boneName
                              /\ ed.chain # None
                           THEN ed.chain
                           ELSE Some(values)]
        ELSE [started EXCEPT !.began = None, !.chain = None]

\* PoseMode.handleEvent for a key that starts an edit of this kind on the
\* active bone.  transforms are the bones that had a transform when the editor
\* was built; the pivot of any other bone raises KeyError.
handleKey(ed, transforms, boneName, kind, pos) ==
    IF ~InList(boneName, transforms)
    THEN [ed EXCEPT !.raised = TRUE]
    ELSE startEdit(ed, boneName,
                   IF kind = "extrude"
                   THEN ExtrudeBone(ed.bones, boneName, pos)
                   ELSE AttributeEdit(ed.bones, boneName, kind, pos))

\* PoseMode.handleEvent for a pointer-down while edit is active: button 1
\* applies it, button 3 cancels it, and any button ends it.
handleClick(ed, edit, button) ==
    [(CASE button = 1 /\ edit.kind = "extrude" ->
               [ed EXCEPT
                   !.bones = extrudeApply(ed.bones, edit.bone, ed.mouse[1]),
                   !.store.activeBoneName =
                       Some(findNextFreeBoneName(
                                ed.bones, ed.bones[edit.bone].name.base, 1))]
        [] button = 3 -> [ed EXCEPT !.bones = editCancel(ed.bones, edit)]
        [] OTHER -> ed)
        EXCEPT !.store.active = None,
               !.began = None, !.chain = None,
               !.ended = Some([edit |-> edit, button |-> button,
                               value |-> IF edit.kind = "attribute"
                                         THEN getValue(ed.bones[edit.bone],
                                                       edit.attribute)
                                         ELSE 0,
                               began |-> ed.began, chain |-> ed.chain])]

\* The attribute a key edits.
EditKeys == [r |-> "rotation.z", s |-> "scale.y", e |-> "extrude"]

\* A mode that ends its edit on a pointer-down and hands the event on to the
\* editor's picking.
handleEventClickThrough(ed, transforms, event, activeBone) ==
    IF event.type = "KEYDOWN" /\ activeBone # None /\ event.unicode = "h"
    THEN [editor |-> [ed EXCEPT !.bones[activeBone[1]].visible = ~@],
          handled |-> TRUE]
    ELSE IF event.type = "KEYDOWN" /\ activeBone # None
            /\ event.unicode \in DOMAIN EditKeys
    THEN [editor |-> handleKey(ed, transforms, activeBone[1],
                               EditKeys[event.unicode], event.pos),
          handled |-> TRUE]
    ELSE IF event.type = "MOUSEBUTTONDOWN" /\ ed.store.active # None
    THEN [editor |-> handleClick(ed, ed.store.active[1], event.button),
          handled |-> FALSE]
    ELSE [editor |-> ed, handled |-> FALSE]

\* PoseMode.handleEvent(event): the editor afterwards and whether the mode
\* handled the event.
handleEvent(ed, transforms, event, activeBone) ==
    IF event.type = "KEYDOWN" /\ activeBone # None /\ event.unicode = "h"
    THEN [editor |-> [ed EXCEPT !.bones[activeBone[1]].visible = ~@],
          handled |-> TRUE]
    ELSE IF event.type = "KEYDOWN" /\ activeBone # None
            /\ event.unicode \in DOMAIN EditKeys
    THEN [editor |-> handleKey(ed, transforms, activeBone[1],
                               EditKeys[event.unicode], event.pos),
          handled |-> TRUE]
    ELSE IF event.type = "MOUSEBUTTONDOWN" /\ ed.store.active # None
    THEN [editor |-> handleClick(ed, ed.store.active[1], event.button),
          handled |-> TRUE]
    ELSE [editor |-> ed, handled |-> FALSE]

\* The store after a pointer-down that picked these bones, each or none.
startDrag(bs, st, settings, pos, pivot, crop) ==
    [st EXCEPT
        !.activeBoneName = IF settings.pivots THEN pivot ELSE @,
        !.dragPivot = IF pivot # None
                      THEN Some(<<pivot[1], pos, bs[pivot[1]].pivot>>)
                      ELSE None,
        !.dragPos = IF crop # None
                    THEN Some(<<crop[1], pos, bs[crop[1]].pos>>)
                    ELSE None]

\* A crop pick that is made whether a pivot was picked or not.
cropAfterAlways(ed, transforms, settings, pos, pivot) ==
    IF settings.imageAreas THEN pickCrop(ed.bones, transforms, pos) ELSE None

\* The crop pick of handleMouseDown after its pivot pick.
cropAfter(ed, transforms, settings, pos, pivot) ==
    IF settings.imageAreas /\ pivot = None
    THEN pickCrop(ed.bones, transforms, pos)
    ELSE None

\* A pointer-down that drags the bone with a crop edge under the pointer even
\* when a pivot was picked.
pickBoth(ed, transforms, settings, pos, pivot) ==
    startDrag(ed.bones, stopDrag(ed.store), settings, pos, pivot,
              IF settings.imageAreas THEN pickCrop(ed.bones, transforms, pos) ELSE None)

\* handleMouseDown once the pivot is picked: the crop is picked only when
\* no pivot was.
pickNext(ed, transforms, settings, pos, pivot) ==
    startDrag(ed.bones, stopDrag(ed.store), settings, pos, pivot,
              cropAfter(ed, transforms, settings, pos, pivot))

\* SkinnedEditor.handleMouseDown(pos)
handleMouseDown(ed, transforms, settings, pos) ==
    [ed EXCEPT !.store =
        pickNext(ed, transforms, settings, pos,
                 IF settings.pivots THEN pickPivot(ed.bones, transforms, pos) ELSE None)]

\* A pointer move that shifts what the bone has now, not what it had at the
\* pointer-down.
handleMouseMotionFromCurrent(ed, pos) ==
    LET dragPivot == ed.store.dragPivot
        dragPos == ed.store.dragPos
        moved(old, oldMouse) == <<old[1] - (oldMouse[1] - pos[1]),
                                  old[2] - (oldMouse[2] - pos[2])>>
        pivoted == IF dragPivot # None
                   THEN [ed.bones EXCEPT ![dragPivot[1][1]].pivot =
                                             moved(@, dragPivot[1][2])]
                   ELSE ed.bones
    IN  [ed EXCEPT !.bones =
            IF dragPos # None
            THEN [pivoted EXCEPT ![dragPos[1][1]].pos = moved(@, dragPos[1][2])]
            ELSE pivoted]

\* SkinnedEditor.handleMouseMotion(pos)
handleMouseMotion(ed, pos) ==
    LET dragPivot == ed.store.dragPivot
        dragPos == ed.store.dragPos
        moved(old, oldMouse) == <<old[1] - (oldMouse[1] - pos[1]),
                                  old[2] - (oldMouse[2] - pos[2])>>
        pivoted == IF dragPivot # None
                   THEN [ed.bones EXCEPT ![dragPivot[1][1]].pivot =
                                             moved(dragPivot[1][3], dragPivot[1][2])]
                   ELSE ed.bones
    IN  [ed EXCEPT !.bones =
            IF dragPos # None
            THEN [pivoted EXCEPT ![dragPos[1][1]].pos =
                                     moved(dragPos[1][3], dragPos[1][2])]
            ELSE pivoted]

\* SkinnedEditor.handleMouseUp(pos)
handleMouseUp(ed, pos) == [ed EXCEPT !.store = stopDrag(ed.store)]

\* SkinnedEditor.handleEvents: what the editor does with an event the mode
\* left alone.
handleUnhandled(mode, transforms, settings, event) ==
    IF mode.handled THEN mode.editor
    ELSE CASE event.type = "MOUSEBUTTONDOWN" ->
                  handleMouseDown(mode.editor, transforms, settings, event.pos)
           [] event.type = "MOUSEMOTION" -> handleMouseMotion(mode.editor, event.pos)
           [] event.type = "MOUSEBUTTONUP" -> handleMouseUp(mode.editor, event.pos)
           [] OTHER -> mode.editor

\* The body of the loop of SkinnedEditor.handleEvents for one event.
handleOne(ed, transforms, settings, event) ==
    handleUnhandled(handleEvent([ed EXCEPT !.mouse = Some(event.pos), !.ended = None],
                                transforms, event, getActiveBone(ed.bones, ed.store)),
                    transforms, settings, event)

\* SkinnedEditor.handleEvents from event i on; an exception ends it.
RECURSIVE handleEvents(_, _, _, _, _)
handleEvents(ed, transforms, settings, events, i) ==
    IF ed.raised THEN ed
    ELSE IF i > Len(events)
    THEN IF ed.mouse # None THEN [ed EXCEPT !.store.mouse = ed.mouse] ELSE ed
    ELSE handleEvents(handleOne(ed, transforms, settings, events[i]),
                      transforms, settings, events, i + 1)

\* PoseMode.draw: the active edit is updated with the pointer.
draw(ed, bs) ==
    [ed EXCEPT !.bones = IF ed.store.active # None
                         THEN editUpdate(bs, ed.store.active[1], ed.mouse[1])
                         ELSE bs]

\* SkinnedEditor.visualizeBones: the wireFrame flag of every bone that has a
\* transform, then PoseMode.draw.
visualizeBones(ed, transforms, settings, activeBone) ==
    draw(ed, [n \in DOMAIN ed.bones |->
                 IF InList(n, transforms)
                 THEN [ed.bones[n] EXCEPT !.wireFrame =
                          (activeBone = None \/ activeBone = Some(n))
                          /\ settings.wireframe]
                 ELSE ed.bones[n]])

\* SkinnedEditor.update once the events are handled: an exception of
\* handleEvents leaves it.
updateHandled(ed, transforms, settings) ==
    IF ed.raised THEN ed
    ELSE visualizeBones(ed, transforms, settings, getActiveBone(ed.bones, ed.store))

\* SkinnedEditor.update of an editor that was built with these transforms.
updateWith(bs, st, seen, settings, events, transforms) ==
    updateHandled(handleEvents(Editor(bs, st, seen), transforms, settings, events, 1),
                  transforms, settings)

\* SkinnedEditor(context, settings).update() for a tick with these events.
editorUpdate(bs, st, seen, settings, events) ==
    updateWith(bs, st, seen, settings, events, computeBoneTransforms(bs))

\* The largest of the rotations and scales an edit may leave, and the most
\* events of a tick.
MaxTurn == 90
MaxEvents == 1
\* Most events of a tick where the order of the events within a tick counts.
MaxTickEvents == 2

\* One tick of the editor screen: the host hands over the tick's events and
\* the editor is built and updated.
Update(settings, events) ==
    \E ed \in {editorUpdate(bones, store, lastEvent, settings, events)} :
        /\ Cardinality(DOMAIN ed.bones) <= MaxBones
        /\ \A n \in DOMAIN ed.bones :
               /\ ed.bones[n].rotation.z \in -MaxTurn..MaxTurn
               /\ ed.bones[n].scale.y - 1 \in -MaxTurn..MaxTurn
        /\ bones' = ed.bones
        /\ store' = ed.store
        /\ lastEvent' = [events |-> events, settings |-> settings,
                         raised |-> ed.raised, began |-> ed.began,
                         chain |-> ed.chain, ended |-> ed.ended]
        /\ UNCHANGED <<lastRig, playerVars, fileVars, animVars, renderVars>>

----------------------------------------------------------------------------
(* skinned.py: findBoneInfluences, Bone.updateWeights.  The matrices of the *)
(* transforms are taken as the identity, as for the editor's picking.       *)

\* findBoneInfluences: the "continue" of the loop skips a bone that has a
\* parent when that parent has none.
influenceSkipped(bs, boneName) ==
    /\ bs[boneName].parent # None
    /\ bs[bs[boneName].parent[1]].parent = None

\* findBoneInfluences: the square of the distance it sorts a bone by, from the
\* vertex to the line from the bone's pivot to its parent's pivot; a bone
\* without a parent has a line of length 0.0001 at its pivot, here the pivot.
influenceDistance(bs, boneName, vertex) ==
    lineToPointSquared(bs[boneName].pivot,
                       IF bs[boneName].parent # None
                       THEN bs[bs[boneName].parent[1]].pivot
                       ELSE bs[boneName].pivot,
                       vertex)

\* findBoneInfluences(vertex, transforms)[0], as trans.index: the positions
\* in transforms, from 0, of the bones the loop does not skip that are nearest
\* the vertex.  Bones at the same distance are sorted as the dictionary lists
\* them, so any of them can be first.
findBoneInfluences(bs, transforms, vertex) ==
    LET kept == {k \in 1..Len(transforms) : ~influenceSkipped(bs, transforms[k])}
    IN  {k - 1 : k \in {j \in kept :
                           \A i \in kept :
                               influenceDistance(bs, transforms[j], vertex)
                                   <= influenceDistance(bs, transforms[i], vertex)}}

\* Bone.updateWeights writes [1.0, 0.0, 0.0, 0.0] and [index, 0.0, 0.0, 0.0]
\* for every vertex: the arrays for the indices chosen.
weightsOf(chosen) == [i \in 1..(4 * Len(chosen)) |-> IF (i - 1) % 4 = 0 THEN 1 ELSE 0]
indicesOf(chosen) ==
    [i \in 1..(4 * Len(chosen)) |-> IF (i - 1) % 4 = 0 THEN chosen[(i - 1) \div 4 + 1] ELSE 0]

\* The vertex that starts at position 4 * (i - 1) of the array vertices.
vertexAt(vertices, i) == <<vertices[4 * (i - 1) + 1], vertices[4 * (i - 1) + 2]>>

\* Bone.updateWeights(transforms) on the bone boneName with the transforms of
\* the rig: nothing without vertices; nearby[0] raises IndexError when every
\* bone was skipped.
UpdateWeights(boneName) ==
    /\ boneName \in DOMAIN bones
    /\ "boneWeights" \in DOMAIN bones[boneName]
    /\ \E transforms \in {computeBoneTransforms(bones)} :
       \E count \in {IF bones[boneName].vertices = None THEN 0
                     ELSE Len(bones[boneName].vertices[1]) \div 4} :
           IF count = 0
           THEN /\ bones' = bones
                /\ lastRig' = [op |-> "weights", bone |-> Some(boneName),
                               parent |-> None, raised |-> FALSE]
           ELSE IF \E i \in 1..count :
                       findBoneInfluences(bones, transforms,
                                          vertexAt(bones[boneName].vertices[1], i)) = {}
           THEN /\ bones' = bones
                /\ lastRig' = [op |-> "weights", bone |-> Some(boneName),
                               parent |-> None, raised |-> TRUE]
           ELSE \E chosen \in [1..count -> 0..(Len(transforms) - 1)] :
                    /\ \A i \in 1..count :
                           chosen[i] \in findBoneInfluences(
                                             bones, transforms,
                                             vertexAt(bones[boneName].vertices[1], i))
                    /\ bones' = [bones EXCEPT
                                    ![boneName].boneWeights = Some(weightsOf(chosen)),
                                    ![boneName].boneIndices = Some(indicesOf(chosen))]
                    /\ lastRig' = [op |-> "weights", bone |-> Some(boneName),
                                   parent |-> None, raised |-> FALSE]
    /\ UNCHANGED <<playerVars, fileVars, animVars, editVars, renderVars>>

----------------------------------------------------------------------------
(* skinned.py and skin.py: JsonEncoder, saveToFile, loadFromFile            *)
(* A JSON object is a record, a JSON array a sequence, null is None; a      *)
(* Vector3 is written as the array of its three components and an optional  *)
(* ctypes array as the array of its elements.                               *)

\* VERSION of skin.py and of skinned.py
VERSION == 1

\* "if x:" for an optional list read from the document: neither null nor empty.
Truthy(opt) == opt # None /\ opt[1] # <<>>

\* JsonEncoder.default for a euclid.Vector3
jsonVector3(v) == <<v.x, v.y, v.z>>

\* euclid.Vector3(*raw)
vector3FromJson(raw) == Vector3(raw[1], raw[2], raw[3])

\* The record r without the fields named in ignore ("del d[ignore]").
dropFields(r, ignore) == [f \in (DOMAIN r) \ ignore |-> r[f]]

\* skinned.JsonEncoder.default for a Bone: obj.__dict__, every attribute.
jsonBone(bone) ==
    [bone EXCEPT !.rotation = jsonVector3(@), !.scale = jsonVector3(@)]

\* skinned.saveToFile: the document written.
saveToFile(bs) == [version |-> VERSION, bones |-> [n \in DOMAIN bs |-> jsonBone(bs[n])]]

\* jsonIgnore of skin.SkinningBone
SkinningBoneJsonIgnore == {"points", "triangles"}

\* jsonIgnore of skinnedmesh.SkinnedMesh: the lean format leaves the mesh
\* buffers out.
SkinnedMeshJsonIgnore == {"vertices", "indices", "boneWeights", "boneIndices"}

\* skin.JsonEncoder.default for a SkinnedMesh
jsonSkinnedMesh(mesh) == dropFields(mesh, SkinnedMeshJsonIgnore)

\* skin.JsonEncoder.default for a SkinningBone: a copy of obj.__dict__ without
\* the ignored attributes.
jsonSkinningBone(bone) ==
    dropFields([bone EXCEPT !.rotation = jsonVector3(@), !.scale = jsonVector3(@),
                            !.mesh = IF @ = None THEN None
                                     ELSE Some(jsonSkinnedMesh(@[1]))],
               SkinningBoneJsonIgnore)

\* skin.saveToFile: the document written.
saveSkinToFile(bs) ==
    [version |-> VERSION, bones |-> [n \in DOMAIN bs |-> jsonSkinningBone(bs[n])]]

\* raw.get(key) of a JSON object: None for a key that is missing or null.
rawGet(raw, key) == IF key \in DOMAIN raw THEN raw[key] ELSE None

\* A loader that also reads the files of older versions.
versionMismatchNewerOnly(data) == data.version > VERSION

\* loadFromFile: 'if data["version"] != VERSION: raise'
versionMismatch(data) == data.version # VERSION

\* loadFromFile: Image(image["name"], ...) for an entry that has an image.
imageFromJson(image) ==
    IF image # None
    THEN Some(Image(image[1].name, image[1].x, image[1].y,
                    image[1].width, image[1].height))
    ELSE None

\* skinned.loadFromFile's loop body with the wireFrame line lost.
boneFromJsonNoWireFrame(raw) ==
    [Bone(raw.name) EXCEPT
        !.children = raw.children, !.parent = raw.parent,
        !.image = imageFromJson(rawGet(raw, "image")),
        !.pos = raw.pos, !.pivot = raw.pivot,
        !.rotation = vector3FromJson(raw.rotation),
        !.scale = vector3FromJson(raw.scale),
        !.zOrder = raw.zOrder, !.visible = raw.visible,
        !.vertices = IF Truthy(rawGet(raw, "vertices")) THEN raw.vertices ELSE None,
        !.indices = IF Truthy(rawGet(raw, "indices")) THEN raw.indices ELSE None]

\* skinned.loadFromFile's loop body: the Bone built from one entry.
boneFromJson(raw) ==
    [Bone(raw.name) EXCEPT
        !.children = raw.children, !.parent = raw.parent,
        !.image = imageFromJson(rawGet(raw, "image")),
        !.pos = raw.pos, !.pivot = raw.pivot,
        !.rotation = vector3FromJson(raw.rotation),
        !.scale = vector3FromJson(raw.scale),
        !.zOrder = raw.zOrder, !.visible = raw.visible, !.wireFrame = raw.wireFrame,
        !.vertices = IF Truthy(rawGet(raw, "vertices")) THEN raw.vertices ELSE None,
        !.indices = IF Truthy(rawGet(raw, "indices")) THEN raw.indices ELSE None]

\* skin._getArray(tp, obj, key)
getArray(obj, key) == IF Truthy(rawGet(obj, key)) THEN obj[key] ELSE None

\* skin.loadFromFile's loop body: the SkinningBone built from one entry.  An
\* empty JSON object is false, as null is.
skinningBoneFromJson(raw) ==
    [SkinningBone(raw.name) EXCEPT
        !.children = raw.children, !.parent = raw.parent,
        !.image = imageFromJson(rawGet(raw, "image")),
        !.pos = raw.pos, !.pivot = raw.pivot,
        !.rotation = vector3FromJson(raw.rotation),
        !.scale = vector3FromJson(raw.scale),
        !.zOrder = raw.zOrder, !.visible = raw.visible, !.wireFrame = raw.wireFrame,
        !.mesh = LET mesh == rawGet(raw, "mesh")
                 IN  IF mesh # None /\ DOMAIN mesh[1] # {}
                     THEN Some(SkinnedMesh(getArray(mesh[1], "vertices"),
                                           getArray(mesh[1], "indices"),
                                           getArray(mesh[1], "boneWeights"),
                                           getArray(mesh[1], "boneIndices")))
                     ELSE None]

\* The dictionary loadFromFile fills: bones[bone.name] = bone for every entry.
bonesByName(entries) ==
    [n \in {entries[k].name : k \in DOMAIN entries} |->
        entries[CHOOSE k \in DOMAIN entries : entries[k].name = n]]

\* skinned.loadFromFile for a document that passes the version test.
loadFromFile(data) ==
    bonesByName([k \in DOMAIN data.bones |-> boneFromJson(data.bones[k])])

\* skin.loadFromFile for a document that passes the version test.
loadSkinFromFile(data) ==
    bonesByName([k \in DOMAIN data.bones |-> skinningBoneFromJson(data.bones[k])])

\* Whether the rig in memory is made of skin.SkinningBone (the lean format's
\* module) or of skinned.Bone (the full format's).
IsSkinRig(bs) == \A n \in DOMAIN bs : "mesh" \in DOMAIN bs[n]

NoLoad == [op |-> "none", raised |-> "none", version |-> None,
           source |-> None, bones |-> None]

\* A call of saveToFile with the rig in memory, by the module the rig is of.
SaveToFile ==
    /\ disk' = Some(IF IsSkinRig(bones) THEN saveSkinToFile(bones) ELSE saveToFile(bones))
    /\ saved' = Some(bones)
    /\ UNCHANGED <<loaded, playerVars, rigVars, animVars, editVars, renderVars>>

\* A call of loadFromFile, by the module the rig is of.  open() raises when
\* there is no file; the version test raises before any bone is built.
LoadFromFile ==
    /\ loaded' =
          IF disk = None
          THEN [NoLoad EXCEPT !.op = "load", !.raised = "io"]
          ELSE IF versionMismatch(disk[1])
          THEN [NoLoad EXCEPT !.op = "load", !.raised = "version",
                              !.version = Some(disk[1].version), !.source = saved]
          ELSE [NoLoad EXCEPT !.op = "load", !.version = Some(disk[1].version),
                              !.source = saved,
                              !.bones = Some(IF IsSkinRig(bones)
                                             THEN loadSkinFromFile(disk[1])
                                             ELSE loadFromFile(disk[1]))]
    /\ UNCHANGED <<disk, saved, playerVars, rigVars, animVars, editVars, renderVars>>

----------------------------------------------------------------------------
(* Rigs and inputs                                                          *)

\* All bone names a rig of at most MaxBones + 1 bones can hold.
BoneNames ==
    {Hip, Arm, Hand, Hair} \cup
    {NameIdx(b, i) : b \in {"doll hip", "doll arm", "doll hand", "doll hair"},
                     i \in 1..(MaxBones + 1)}

\* Pointer positions of the host's events.
MousePositions == {<<1, 1>>, <<3, 2>>}

\* A rig in the editor: hip -> (arm -> hand, hair, leg).
DollRig ==
    (Hip :> [Bone(Hip) EXCEPT !.children = <<Arm, Hair, Leg>>, !.zOrder = 0])
    @@ (Arm :> [Bone(Arm) EXCEPT !.parent = Some(Hip), !.children = <<Hand>>,
                                 !.zOrder = 1])
    @@ (Hand :> [Bone(Hand) EXCEPT !.parent = Some(Arm), !.zOrder = 2])
    @@ (Hair :> [Bone(Hair) EXCEPT !.parent = Some(Hip), !.zOrder = 1])
    @@ (Leg :> [Bone(Leg) EXCEPT !.parent = Some(Hip), !.zOrder = 1])

\* A smaller rig in the editor: hip -> arm -> hand.
ArmRig ==
    (Hip :> [Bone(Hip) EXCEPT !.children = <<Arm>>, !.zOrder = 0])
    @@ (Arm :> [Bone(Arm) EXCEPT !.parent = Some(Hip), !.children = <<Hand>>,
                                 !.zOrder = 1])
    @@ (Hand :> [Bone(Hand) EXCEPT !.parent = Some(Arm), !.zOrder = 2])

\* The rig the player poses: hip -> (arm, hair).
SkinRig ==
    (Hip :> [SkinningBone(Hip) EXCEPT !.children = <<Arm, Hair>>, !.zOrder = 0])
    @@ (Arm :> [SkinningBone(Arm) EXCEPT !.parent = Some(Hip), !.zOrder = 1])
    @@ (Hair :> [SkinningBone(Hair) EXCEPT !.parent = Some(Hip), !.zOrder = 1])

\* Track infos of a scene that runs several tracks.
SceneInfos ==
    {TrackInfo(n, FALSE, FALSE, FALSE, FALSE, FALSE, 1, ClockHz) :
         n \in {"blink", "ghost", "stale", "walk"}}

\* Track infos with every policy, some speeds and frame rates.
PolicyInfos ==
    {TrackInfo(n, repeat, cyclic, reverse, autoEnd, clip, speed, fps) :
         n \in {"blink", "cycle", "walk"},
         repeat \in BOOLEAN, cyclic \in BOOLEAN, reverse \in BOOLEAN,
         autoEnd \in BOOLEAN, clip \in BOOLEAN,
         speed \in {1, 2}, fps \in {1, ClockHz}}

\* Poses a bone is saved in.
Poses ==
    {[pos |-> <<0, 0>>, pivot |-> <<0, 0>>, rotation |-> Vector3(0, 0, 0),
      scale |-> Vector3(1, 1, 1), zOrder |-> -1],
     [pos |-> <<5, 6>>, pivot |-> <<7, 8>>, rotation |-> Vector3(0, 0, 3),
      scale |-> Vector3(1, 2, 1), zOrder |-> 2]}

ArmImage == Image("doll arm.png", 1, 2, 3, 4)
ArmPoints == << <<0, 0>>, <<4, 0>>, <<0, 3>> >>
ArmTriangles == << ArmPoints >>
ArmVertices == <<0, 0, 0, 0, 4, 0, 1, 0, 0, 3, 0, 1>>
ArmIndices == <<0, 1, 2>>
ArmWeights == <<1, 0, 0, 0, 1, 0, 0, 0, 1, 0, 0, 0>>
ArmBoneIndices == <<1, 0, 0, 0, 1, 0, 0, 0, 1, 0, 0, 0>>

\* The derived data of a skinned.Bone: nothing yet, the outline traced
\* (updatePoints), the mesh built (triangulate, updateVerticesFromTriangles),
\* the mesh weighted (updateWeights).
BoneMeshes ==
    {[points |-> <<>>, triangles |-> <<>>, vertices |-> None, indices |-> None,
      boneWeights |-> None, boneIndices |-> None],
     [points |-> ArmPoints, triangles |-> <<>>, vertices |-> None, indices |-> None,
      boneWeights |-> None, boneIndices |-> None],
     [points |-> ArmPoints, triangles |-> ArmTriangles,
      vertices |-> Some(ArmVertices), indices |-> Some(ArmIndices),
      boneWeights |-> None, boneIndices |-> None],
     [points |-> ArmPoints, triangles |-> ArmTriangles,
      vertices |-> Some(ArmVertices), indices |-> Some(ArmIndices),
      boneWeights |-> Some(ArmWeights), boneIndices |-> Some(ArmBoneIndices)]}

\* The derived data of a skin.SkinningBone: nothing yet, the mesh built
\* (updateMeshFromTriangles), the mesh weighted.
SkinMeshes ==
    {[points |-> <<>>, triangles |-> <<>>, mesh |-> None],
     [points |-> ArmPoints, triangles |-> ArmTriangles,
      mesh |-> Some(SkinnedMesh(Some(ArmVertices), Some(ArmIndices), None, None))],
     [points |-> ArmPoints, triangles |-> ArmTriangles,
      mesh |-> Some(SkinnedMesh(Some(ArmVertices), Some(ArmIndices),
                                Some(ArmWeights), Some(ArmBoneIndices)))]}

posed(bone, pose) ==
    [bone EXCEPT !.pos = pose.pos, !.pivot = pose.pivot, !.rotation = pose.rotation,
                 !.scale = pose.scale, !.zOrder = pose.zOrder]

\* Rigs of skinned.Bone that get saved: hip -> arm, the arm in any state.
SavedBoneRigs ==
    {(Hip :> [Bone(Hip) EXCEPT !.children = <<Arm>>, !.zOrder = 0])
     @@ (Arm :> [posed(Bone(Arm), pose) EXCEPT
                    !.parent = Some(Hip), !.image = image,
                    !.visible = visible, !.wireFrame = wireFrame,
                    !.points = m.points, !.triangles = m.triangles,
                    !.vertices = m.vertices, !.indices = m.indices,
                    !.boneWeights = m.boneWeights, !.boneIndices = m.boneIndices]) :
        pose \in Poses, image \in {None, Some(ArmImage)},
        visible \in BOOLEAN, wireFrame \in BOOLEAN, m \in BoneMeshes}

\* Rigs of skin.SkinningBone that get saved.
SavedSkinRigs ==
    {(Hip :> [SkinningBone(Hip) EXCEPT !.children = <<Arm>>, !.zOrder = 0])
     @@ (Arm :> [posed(SkinningBone(Arm), pose) EXCEPT
                    !.parent = Some(Hip), !.image = image,
                    !.visible = visible, !.wireFrame = wireFrame,
                    !.points = m.points, !.triangles = m.triangles,
                    !.mesh = m.mesh]) :
        pose \in Poses, image \in {None, Some(ArmImage)},
        visible \in BOOLEAN, wireFrame \in BOOLEAN, m \in SkinMeshes}

\* What is on disk when the program starts: no rig file, or one written by
\* an older or by a newer version of the program.
FoundOnDisk(bs) ==
    {None} \cup
    {Some([version |-> v,
           bones |-> IF IsSkinRig(bs) THEN saveSkinToFile(bs).bones
                     ELSE saveToFile(bs).bones]) :
        v \in {VERSION - 1, VERSION + 1}}

\* Every key of the animations that are applied or keyed directly holds
\* multiples of Unit, a common multiple of the distances two keys can have.
RECURSIVE Factorial(_)
Factorial(n) == IF n <= 1 THEN 1 ELSE n * Factorial(n - 1)

Unit == Factorial(MaxFrames)

KeyRest == KeyFrame(<<0, 0>>, Vector3(0, 0, 0), Vector3(Unit, Unit, Unit), 0, TRUE)
KeyBent == KeyFrame(<<Unit, 2 * Unit>>, Vector3(0, 0, 2 * Unit),
                    Vector3(Unit, 3 * Unit, Unit), 1, FALSE)

\* The frame that holds the keys given: bone name -> None or Some(key).
FrameOf(keys) == [n \in {m \in DOMAIN keys : keys[m] # None} |-> keys[n][1]]

\* Animations of one to MaxFrames frames: the hip is keyed in frame 0 and the
\* arm in any frames, with either pose.
PosedAnimations ==
    UNION {{[i \in 1..count |->
                FrameOf((Hip :> IF i = 1 THEN Some(KeyBent) ELSE None)
                        @@ (Arm :> arm[i]))] :
               arm \in [1..count -> {None, Some(KeyRest), Some(KeyBent)}]} :
           count \in 1..MaxFrames}

\* Animations of one to MaxFrames frames in which any frame keys the hip, the
\* arm, both or nothing.
LoadedAnimations ==
    UNION {{[i \in 1..count |-> FrameOf((Hip :> hip[i]) @@ (Arm :> arm[i]))] :
               hip \in [1..count -> {None, Some(KeyBent)}],
               arm \in [1..count -> {None, Some(KeyRest), Some(KeyBent)}]} :
           count \in 1..MaxFrames}

\* The rig in the editor with the arm in either pose.
KeyedRigs ==
    {[ArmRig EXCEPT ![Arm] = copyKeyData(key, @)] : key \in {KeyRest, KeyBent}}

\* KEYDOWN events of K_i, with and without Alt.
KeyEvents == {[alt |-> alt] : alt \in BOOLEAN}

----------------------------------------------------------------------------
(* rendering.py: the GL calls of a render pass                              *)

\* One call into GL. The uniform calls and the state switches of blending and
\* depth testing bind nothing and are left out of the passes below.
GLCall(call, arg) == [call |-> call, arg |-> arg]

\* The GL context after one call: glUseProgram sets the program in use,
\* glEnableVertexAttribArray and glDisableVertexAttribArray switch an attribute
\* array, glActiveTexture selects the unit that glBindTexture binds to; a
\* clear or a draw changes none of these.
glStep(g, c) ==
    CASE c.call = "glUseProgram" -> [g EXCEPT !.program = c.arg]
      [] c.call = "glEnableVertexAttribArray" ->
             [g EXCEPT !.enabled = @ \cup {c.arg}]
      [] c.call = "glDisableVertexAttribArray" ->
             [g EXCEPT !.enabled = @ \ {c.arg}]
      [] c.call = "glActiveTexture" -> [g EXCEPT !.active = c.arg]
      [] c.call = "glBindTexture" ->
             [g EXCEPT !.units = With(@, g.active, c.arg)]
      [] OTHER -> g

RECURSIVE glRun(_, _)
glRun(g, calls) ==
    IF calls = <<>> THEN g ELSE glRun(glStep(g, Head(calls)), Tail(calls))

\* BaseRenderer.bindAttributeArray: glGetAttribLocation gives -1 for a name
\* the linked shader has no attribute of, and nothing is bound then.
bindAttributeArray(located, name) ==
    IF name \in located
    THEN <<GLCall("glVertexAttribPointer", name),
           GLCall("glEnableVertexAttribArray", name)>>
    ELSE <<>>

\* An unbindAttributeArray that leaves the array enabled.
unbindAttributeArrayNever(located, name) == <<>>

\* BaseRenderer.unbindAttributeArray
unbindAttributeArray(located, name) ==
    IF name \in located
    THEN <<GLCall("glDisableVertexAttribArray", name)>>
    ELSE <<>>

\* TextureMap.bindTextures: unit index for the index-th texture of the map,
\* in the order the dictionary gives them.
RECURSIVE bindTextures(_, _)
bindTextures(textures, index) ==
    IF textures = <<>> THEN <<>>
    ELSE <<GLCall("glActiveTexture", index),
           GLCall("glBindTexture", Head(textures))>>
             \o bindTextures(Tail(textures), index + 1)

\* The loop of TextureMap.unbindTextures and of SkinnedRenderer.render, for
\* i in range(count), from unit i on.
RECURSIVE unbindUnits(_, _)
unbindUnits(i, count) ==
    IF i >= count THEN <<>>
    ELSE <<GLCall("glActiveTexture", i), GLCall("glBindTexture", "none")>>
             \o unbindUnits(i + 1, count)

\* TextureMap.unbindTextures
unbindTextures(textures) ==
    unbindUnits(0, Len(textures)) \o <<GLCall("glActiveTexture", 0)>>

\* Renderer2D.render
render2D(located, textures) ==
    <<GLCall("glUseProgram", "shader")>>
      \o bindTextures(textures, 0)
      \o <<GLCall("glClear", "color")>>
      \o bindAttributeArray(located, "inVertex")
      \o <<GLCall("glDrawArrays", "quad")>>
      \o unbindAttributeArray(located, "inVertex")
      \o unbindTextures(textures)
      \o <<GLCall("glUseProgram", "none")>>

\* The body of the loop of Renderer3D.render over self.models.items(), for
\* the entries in the order the dictionary gives them.
RECURSIVE renderModels(_, _)
renderModels(located, entries) ==
    IF entries = <<>> THEN <<>>
    ELSE bindTextures(Head(entries).textures, 0)
           \o bindAttributeArray(located, "inPosition")
           \o bindAttributeArray(located, "inNormal")
           \o bindAttributeArray(located, "inUv")
           \o <<GLCall("glDrawArrays", Head(entries).tag)>>
           \o unbindAttributeArray(located, "inPosition")
           \o unbindAttributeArray(located, "inNormal")
           \o unbindAttributeArray(located, "inUv")
           \o unbindTextures(Head(entries).textures)
           \o renderModels(located, Tail(entries))

\* Renderer3D.render
render3D(located, entries) ==
    <<GLCall("glUseProgram", "shader"), GLCall("glClear", "color and depth")>>
      \o renderModels(located, entries)
      \o <<GLCall("glUseProgram", "none")>>

\* SkinnedRenderer.renderBone, and its loop over data["children"]: the bone's
\* image and weight textures go to units 0 and 1, the bone is drawn, then its
\* children are, each in the same way.
RECURSIVE renderBone(_, _, _)
RECURSIVE renderChildren(_, _, _)
renderBone(located, metadata, name) ==
    <<GLCall("glActiveTexture", 0), GLCall("glBindTexture", <<name, ".image">>),
      GLCall("glActiveTexture", 1),
      GLCall("glBindTexture", <<name, ".imageWeights">>)>>
      \o bindAttributeArray(located, "inVertex")
      \o <<GLCall("glDrawElements", name)>>
      \o unbindAttributeArray(located, "inVertex")
      \o renderChildren(located, metadata, metadata[name])

renderChildren(located, metadata, children) ==
    IF children = <<>> THEN <<>>
    ELSE renderBone(located, metadata, Head(children))
           \o renderChildren(located, metadata, Tail(children))

\* SkinnedRenderer.render
renderSkinned(located, metadata, root) ==
    <<GLCall("glUseProgram", "shader"), GLCall("glClear", "color")>>
      \o renderBone(located, metadata, root)
      \o unbindUnits(0, 2)
      \o <<GLCall("glActiveTexture", 0), GLCall("glUseProgram", "none")>>

\* No program in use, no attribute array enabled, no texture bound.
NoGL == [program |-> "none", enabled |-> {}, units |-> EmptyMap, active |-> 0]
NoRender == [op |-> "none", located |-> {}, draws |-> 0, calls |-> <<>>,
             before |-> NoGL]

\* One render pass by the host: the renderer makes its GL calls in order and
\* returns. named are the attributes the renderer binds, located those of
\* them the shader has, draws the models or bones the renderer holds.
Render(op, named, located, draws, calls) ==
    /\ glState' = glRun(glState, calls)
    /\ lastRender' = [op |-> op, located |-> located \cap named,
                      draws |-> draws, calls |-> calls, before |-> glState]
    /\ UNCHANGED <<playerVars, rigVars, fileVars, animVars, editVars>>

\* Renderer2D.render by the host.
Render2D(located, textures) ==
    \E calls \in {render2D(located, textures)} :
        Render("2d", {"inVertex"}, located, 1, calls)

\* Renderer3D.render by the host.
Render3D(located, entries) ==
    \E calls \in {render3D(located, entries)} :
        Render("3d", {"inPosition", "inNormal", "inUv"}, located,
               Len(entries), calls)

\* SkinnedRenderer.render by the host.
RenderSkinned(located, metadata, root) ==
    \E calls \in {renderSkinned(located, metadata, root)} :
        Render("skinned", {"inVertex"}, located, Cardinality(DOMAIN metadata),
               calls)

----------------------------------------------------------------------------
(* Specifications                                                           *)

RenderIdle == glState = NoGL /\ lastRender = NoRender

PlayerIdle ==
    time = 0 /\ tracks = EmptyMap /\ playerStore = EmptyMap /\ lastPlay = NoCall
FilesIdle == disk = None /\ saved = None /\ loaded = NoLoad
\* SkinnedAnimation.__init__: one frame without keys.
AnimIdle == anim = <<Frame>> /\ lastAnim = NoAnim
EditorIdle == store = NoStore /\ lastEvent = NoEvent

\* A scene: the host plays lists of tracks, stops tracks and lets time pass.
InitScene ==
    /\ PlayerIdle /\ RenderIdle
    /\ bones = SkinRig /\ lastRig = NoEdit /\ FilesIdle
    /\ AnimIdle /\ EditorIdle

NextScene ==
    \/ \E infos \in SeqUpTo(SceneInfos, MaxInfos), rest \in BOOLEAN : Play(infos, rest)
    \/ \E name \in {"blink", "walk"} : StopAnimation(name)
    \/ \E d \in 1..MaxStep : Tick(d, MaxTime)

SpecScene == InitScene /\ [][NextScene]_vars

\* The tags of two displayables, each with a player.
Tags == {DefaultTag, "cat"}

\* Track infos of a scene with two players.
TagInfos == {TrackInfo(n, FALSE, FALSE, FALSE, FALSE, FALSE, 1, ClockHz) :
                 n \in {"blink", "walk"}}

\* Two displayables: every tick the host builds a player for either tag and
\* plays a list of tracks on it or stops a track.
NextTags ==
    \/ \E tag \in Tags, infos \in SeqUpTo(TagInfos, MaxInfos) :
           PlayTagged(tag, infos, FALSE)
    \/ \E tag \in Tags, name \in {"blink", "walk"} : StopTagged(tag, name)
    \/ \E d \in 1..MaxStep : Tick(d, MaxTime)

SpecTags == InitScene /\ [][NextTags]_vars

\* The track info a scene of blended tracks lists for a name.
BlendInfo(n) == TrackInfo(n, FALSE, FALSE, FALSE, FALSE, FALSE, 1, ClockHz)

\* Tracks that pose the same bone run together: "cycle" and "walk" both key
\* the arm. The host lists the tracks in any order, starts them at any time
\* and drops them from the list again.
NextBlend ==
    \/ \E names \in SeqUpTo({"blink", "cycle", "walk"}, MaxInfos),
          rest \in BOOLEAN :
           Play([i \in 1..Len(names) |-> BlendInfo(names[i])], rest)
    \/ \E d \in 1..MaxStep : Tick(d, MaxTime)

SpecBlend == InitScene /\ [][NextBlend]_vars

\* Track infos for "blink" and "walk" that differ in policy, speed and frame
\* rate.
RelistInfos ==
    {TrackInfo(n, repeat, FALSE, reverse, FALSE, FALSE, speed, fps) :
         n \in {"blink", "walk"}, repeat \in BOOLEAN, reverse \in BOOLEAN,
         speed \in {1, 2}, fps \in {1, ClockHz}}

\* The host lists one track per call, under the name of the running track or
\* another, with whatever info it has at hand then.
NextRelist ==
    \/ \E info \in RelistInfos : Play(<<info>>, FALSE)
    \/ \E d \in 1..MaxStep : Tick(d, MaxTime)

SpecRelist == InitScene /\ [][NextRelist]_vars

\* Texture maps of one or two samplers, in either order of the dictionary.
TextureMaps == {<<"tex0">>, <<"tex0", "tex1">>, <<"tex1", "tex0">>}

\* The models of a Renderer3D: none, one or two, in either order of the
\* dictionary, each with its own texture map, which may be empty.
ModelEntries ==
    {entries \in SeqUpTo([tag : {"room", "doll"},
                          textures : TextureMaps \cup {<<>>}], 2) :
        \A i, j \in 1..Len(entries) : i # j => entries[i].tag # entries[j].tag}

\* The bones of a SkinnedRenderer, name -> children, with the root hip alone,
\* with two children, with a chain, and with a child that has a child and a
\* sibling.
SkinTrees ==
    { ("hip" :> <<>>),
      ("hip" :> <<"arm", "leg">>) @@ ("arm" :> <<>>) @@ ("leg" :> <<>>),
      ("hip" :> <<"arm">>) @@ ("arm" :> <<"hand">>) @@ ("hand" :> <<>>),
      ("hip" :> <<"arm", "leg">>) @@ ("arm" :> <<"hand">>) @@ ("hand" :> <<>>)
          @@ ("leg" :> <<>>) }

\* The host renders displayables of the three kinds, one pass after the
\* other in one GL context; a shader may lack any of the attributes its
\* renderer names.
NextRender ==
    \/ \E located \in SUBSET {"inVertex"}, textures \in TextureMaps :
           Render2D(located, textures)
    \/ \E located \in SUBSET {"inPosition", "inNormal", "inUv"},
          entries \in ModelEntries : Render3D(located, entries)
    \/ \E located \in SUBSET {"inVertex"}, metadata \in SkinTrees :
           RenderSkinned(located, metadata, "hip")

SpecRender == InitScene /\ [][NextRender]_vars

\* One track of any policy, followed through its passes: the host starts it
\* at some time and lists it again, unchanged, in every later call.
NextPolicy ==
    \/ \E info \in PolicyInfos :
           /\ \A n \in DOMAIN tracks : tracks[n].info = info
           /\ Play(<<info>>, FALSE)
    \/ \E d \in 1..MaxStep : Tick(d, MaxClock)

SpecPolicy == InitScene /\ [][NextPolicy]_vars

\* The editor re-parents bones and commits extrudes, in any way.
InitRig ==
    /\ PlayerIdle /\ RenderIdle
    /\ bones = ArmRig /\ lastRig = NoEdit /\ FilesIdle
    /\ AnimIdle /\ EditorIdle

NextRig ==
    \/ \E b \in DOMAIN bones, p \in DOMAIN bones : ConnectBone(b, p)
    \/ \E p \in DOMAIN bones, m \in MousePositions : ExtrudeCommit(p, m)

SpecRig == InitRig /\ [][NextRig]_vars

\* The editor re-parents bones as connectBone's precondition allows.
InitTree ==
    /\ PlayerIdle /\ RenderIdle
    /\ bones = DollRig /\ lastRig = NoEdit /\ FilesIdle
    /\ AnimIdle /\ EditorIdle

NextTree ==
    \E b \in DOMAIN bones, p \in DOMAIN bones : ConnectBoneChecked(b, p)

SpecTree == InitTree /\ [][NextTree]_vars
\* A rig is saved to and loaded from its file.
InitFile ==
    /\ PlayerIdle /\ RenderIdle
    /\ lastRig = NoEdit
    /\ bones \in SavedBoneRigs \cup SavedSkinRigs
    /\ disk \in FoundOnDisk(bones)
    /\ saved = None /\ loaded = NoLoad
    /\ AnimIdle /\ EditorIdle

NextFile ==
    \/ SaveToFile
    \/ LoadFromFile

SpecFile == InitFile /\ [][NextFile]_vars

\* An animation is applied to the rig, at any frame, any number of times.
InitApply ==
    /\ PlayerIdle /\ RenderIdle
    /\ bones = SkinRig /\ lastRig = NoEdit /\ FilesIdle
    /\ anim \in PosedAnimations /\ lastAnim = NoAnim
    /\ EditorIdle

NextApply == \E frameNumber \in 0..(MaxFrames - 1) : Apply(frameNumber)

SpecApply == InitApply /\ [][NextApply]_vars

\* A track is created from a loaded animation, with or without clip.
InitClip ==
    /\ PlayerIdle /\ RenderIdle
    /\ bones = SkinRig /\ lastRig = NoEdit /\ FilesIdle
    /\ anim \in LoadedAnimations /\ lastAnim = NoAnim
    /\ EditorIdle

NextClip == \E clip \in BOOLEAN : ClipAnimation(clip)

SpecClip == InitClip /\ [][NextClip]_vars

\* An animation is keyed in the editor: at any frame the active bone's key
\* is set or deleted, or nothing is pressed, and the duplicates are cleaned.
\* The rig on the editor screen: the hip with its image, whose left edge
\* passes by the hip's pivot, and the arm.
EditRig ==
    (Hip :> [Bone(Hip) EXCEPT !.children = <<Arm>>, !.zOrder = 0,
                              !.image = Some(Image("hip.png", 0, 0, 40, 20)),
                              !.pos = <<-2, -10>>])
    @@ (Arm :> [Bone(Arm) EXCEPT !.parent = Some(Hip), !.zOrder = 1,
                                 !.pivot = <<30, 0>>])

\* Where the pointer is: on the hip's pivot or on the arm's.
EditPositions == {<<0, 0>>, <<30, 0>>}

\* The settings of the editor screen: what a pointer-down can pick.
Settings(pivots, imageAreas) ==
    [pivots |-> pivots, imageAreas |-> imageAreas, wireframe |-> FALSE]

PickSettings == {Settings(TRUE, TRUE), Settings(TRUE, FALSE), Settings(FALSE, TRUE)}

\* The events of picking and dragging.
PickEvents ==
    UNION {{MouseButtonDown(1, pos), MouseMotion(pos), MouseButtonUp(pos)} :
               pos \in EditPositions}

\* The editor screen: picking and dragging with the pointer.
InitPick ==
    /\ PlayerIdle /\ RenderIdle
    /\ bones = EditRig /\ lastRig = NoEdit /\ FilesIdle
    /\ AnimIdle /\ EditorIdle

NextPick ==
    \E settings \in PickSettings, events \in SeqUpTo(PickEvents, MaxEvents) :
        Update(settings, events)

SpecPick == InitPick /\ [][NextPick]_vars

\* The events of dragging while a rotation may be started and ended: the
\* pointer's button 1 goes down, a button goes up, the pointer moves, the key
\* r is pressed.
DragEvents ==
    UNION {{MouseButtonDown(1, pos), MouseMotion(pos),
            MouseButtonUp(pos), KeyDown("r", pos)} : pos \in EditPositions}

\* The editor screen with pivots and crop edges to pick: dragging with the
\* pointer, with modal edits in between.
NextDrag ==
    \E events \in SeqUpTo(DragEvents, MaxEvents) : Update(Settings(TRUE, TRUE), events)

SpecDrag == InitPick /\ [][NextDrag]_vars

\* The keys and clicks of rotating and scaling, and pointer moves.
EditEvents ==
    UNION {{KeyDown("r", pos), KeyDown("s", pos),
            MouseButtonDown(1, pos), MouseButtonDown(2, pos), MouseButtonDown(3, pos),
            MouseMotion(pos)} : pos \in EditPositions}

\* The keys and clicks of extruding, and pointer moves.
ExtrudeEvents ==
    UNION {{KeyDown("e", pos), KeyDown("r", pos),
            MouseButtonDown(1, pos), MouseButtonDown(3, pos),
            MouseMotion(pos)} : pos \in EditPositions}

\* The editor screen with nothing to pick and the hip active, as a click on
\* its pivot left it: rotating, scaling and extruding.
InitEdit ==
    /\ PlayerIdle /\ RenderIdle
    /\ bones = EditRig /\ lastRig = NoEdit /\ FilesIdle
    /\ AnimIdle
    /\ store = [NoStore EXCEPT !.activeBoneName = Some(Hip), !.mouse = Some(<<0, 0>>)]
    /\ lastEvent = NoEvent

NextEdit ==
    \E events \in SeqUpTo(EditEvents, MaxEvents) :
        Update(Settings(FALSE, FALSE), events)

SpecEdit == InitEdit /\ [][NextEdit]_vars

\* The same screen: extruding bones.
NextExtrude ==
    \E events \in SeqUpTo(ExtrudeEvents, MaxEvents) :
        Update(Settings(FALSE, FALSE), events)

SpecExtrude == InitEdit /\ [][NextExtrude]_vars

\* The keys that start a modal edit and the pointer's three buttons going
\* down, and a button going up, on the hip's pivot or the arm's.
ModalEvents ==
    UNION {{KeyDown("r", pos), KeyDown("s", pos), KeyDown("e", pos),
            MouseButtonDown(1, pos), MouseButtonDown(2, pos),
            MouseButtonDown(3, pos), MouseButtonUp(pos)} : pos \in EditPositions}

\* The editor screen with pivots and crop edges to pick: pointer-downs that
\* pick and drag, and modal edits that end by a pointer-down. The pointer
\* moves with the keys and the pointer-downs only: a button goes up where the
\* pointer was last seen.
NextModal ==
    \E events \in SeqUpTo(ModalEvents, MaxEvents) :
        /\ \A i \in 1..Len(events) :
               events[i].type = "MOUSEBUTTONUP" => Some(events[i].pos) = store.mouse
        /\ Update(Settings(TRUE, TRUE), events)

SpecModal == InitPick /\ [][NextModal]_vars

\* The keys that start an edit and the button that commits it, on the hip's
\* pivot or the arm's.
CommitEvents ==
    UNION {{KeyDown("e", pos), KeyDown("r", pos), MouseButtonDown(1, pos)} :
               pos \in EditPositions}

\* The editor screen with nothing to pick and the hip active: ticks of up to
\* MaxTickEvents events, in every order.
NextCommit ==
    \E events \in SeqUpTo(CommitEvents, MaxTickEvents) :
        Update(Settings(FALSE, FALSE), events)

SpecCommit == InitEdit /\ [][NextCommit]_vars

\* The corners of the arm's image, two triangles of them as triangulate
\* makes them, and two entries that are no triangles as another caller may
\* have put into the list.
MeshImage == Image("arm.png", 0, 0, 4, 3)
MeshEntries ==
    {<< <<0, 0>>, <<4, 0>>, <<0, 3>> >>, << <<4, 0>>, <<4, 3>>, <<0, 3>> >>,
     << <<0, 0>>, <<4, 3>> >>, << <<0, 0>>, <<4, 0>>, <<4, 3>>, <<0, 3>> >>}

\* Rigs whose arm has an image and a triangle list, of either module.
MeshRigs ==
    UNION {{(Hip :> [Bone(Hip) EXCEPT !.children = <<Arm>>, !.zOrder = 0])
            @@ (Arm :> [Bone(Arm) EXCEPT !.parent = Some(Hip),
                                         !.image = Some(MeshImage),
                                         !.triangles = triangles]),
            (Hip :> [SkinningBone(Hip) EXCEPT !.children = <<Arm>>, !.zOrder = 0])
            @@ (Arm :> [SkinningBone(Arm) EXCEPT !.parent = Some(Hip),
                                                 !.image = Some(MeshImage),
                                                 !.triangles = triangles])} :
           triangles \in SeqUpTo(MeshEntries, MaxTriangles)}

\* The mesh of a bone is built from its triangle list.
InitMesh ==
    /\ PlayerIdle /\ RenderIdle
    /\ bones \in MeshRigs /\ lastRig = NoEdit /\ FilesIdle
    /\ AnimIdle /\ EditorIdle

NextMesh == \E boneName \in DOMAIN bones : UpdateMesh(boneName)

SpecMesh == InitMesh /\ [][NextMesh]_vars

\* Rigs for weighting: the hip at one corner of the hand's image, the arm and
\* the hand at two others, as a chain hip -> arm -> hand or with both below
\* the hip; the hand's vertices are built from one triangle of three corners.
WeightRigs ==
    UNION {{(Hip :> [Bone(Hip) EXCEPT !.children = <<Arm>>, !.zOrder = 0])
            @@ (Arm :> [Bone(Arm) EXCEPT !.parent = Some(Hip), !.children = <<Hand>>,
                                         !.pivot = <<4, 0>>])
            @@ (Hand :> [hand EXCEPT !.parent = Some(Arm)]),
            (Hip :> [Bone(Hip) EXCEPT !.children = <<Arm, Hand>>, !.zOrder = 0])
            @@ (Arm :> [Bone(Arm) EXCEPT !.parent = Some(Hip), !.pivot = <<4, 0>>])
            @@ (Hand :> [hand EXCEPT !.parent = Some(Hip)])} :
           hand \in {updateVerticesFromTriangles(
                         [Bone(Hand) EXCEPT !.pivot = <<4, 3>>,
                                            !.image = Some(MeshImage),
                                            !.triangles = <<triangle>>]).bone :
                        triangle \in {t \in [1..3 -> {<<0, 0>>, <<4, 0>>, <<0, 3>>, <<4, 3>>}] :
                                         t[1] # t[2] /\ t[2] # t[3] /\ t[1] # t[3]}}}

\* The weights of a bone's vertices are computed, any number of times.
InitWeights ==
    /\ PlayerIdle /\ RenderIdle
    /\ bones \in WeightRigs /\ lastRig = NoEdit /\ FilesIdle
    /\ AnimIdle /\ EditorIdle

NextWeights == \E boneName \in DOMAIN bones : UpdateWeights(boneName)

SpecWeights == InitWeights /\ [][NextWeights]_vars

InitKeys ==
    /\ PlayerIdle /\ RenderIdle
    /\ lastRig = NoEdit /\ FilesIdle
    /\ bones \in KeyedRigs
    /\ anim \in PosedAnimations /\ lastAnim = NoAnim
    /\ store = [NoStore EXCEPT !.activeBoneName = Some(Arm)]
    /\ lastEvent = NoEvent

NextKeys ==
    \E frameNumber \in 0..(MaxFrames - 1), events \in SeqUpTo(KeyEvents, 1) :
        UpdateAnimation(frameNumber, events)

SpecKeys == InitKeys /\ [][NextKeys]_vars


----------------------------------------------------------------------------
(* Properties of the animation player                                       *)

\* C1: after a play(infos) call that returns normally the running track names
\* are exactly the names listed in infos: every listed name has a track and
\* every track that is not listed has been removed.
C1_PlayReconciles ==
    (lastPlay.op = "play" /\ lastPlay.raised = "none")
        => DOMAIN tracks = Range(lastPlay.names)

\* C1 happens: "walk" alone was running, play(["blink"]) returned normally and
\* left "blink" alone.
C1_Witness ==
    /\ lastPlay.op = "play" /\ lastPlay.raised = "none"
    /\ lastPlay.before = {"walk"} /\ lastPlay.names = <<"blink">>
    /\ DOMAIN tracks = {"blink"}

\* C2: a track keeps its startTime for as long as it runs, a track that is
\* started gets the clock of the call that starts it, and a running track that
\* a play call lists is still running after the call: listing the same name
\* again never resets its startTime.
C2_StartTimeKept ==
    [][/\ \A n \in DOMAIN tracks' :
              tracks'[n].startTime =
                  IF n \in DOMAIN tracks THEN tracks[n].startTime ELSE time
       /\ \A n \in DOMAIN tracks :
              (lastPlay'.op = "play" /\ n \in Range(lastPlay'.names))
                  => n \in DOMAIN tracks']_vars

\* C2 happens: a play call that lists "walk" returned normally at a clock
\* later than the one "walk" was started at.
C2_Witness ==
    /\ lastPlay.op = "play" /\ lastPlay.raised = "none"
    /\ "walk" \in Range(lastPlay.names) /\ "walk" \in lastPlay.before
    /\ "walk" \in DOMAIN tracks
    /\ tracks["walk"].startTime < lastPlay.time

\* C3: every frame index that updateTrack hands to apply lies in
\* 0..frameCount-1, whatever the track's policy flags, for every clock at or
\* after its start time.
C3_FrameIndexInRange ==
    \A i \in 1..Len(lastPlay.applied) :
        /\ 0 <= lastPlay.applied[i].frameIndex
        /\ lastPlay.applied[i].frameIndex <= lastPlay.applied[i].frameCount - 1

\* C4: for n frames and raw index i, getFrameIndexCyclic is i less the frames
\* of the passes done on an even pass, and on an odd pass what is left of that
\* pass (n - i mod n); for n = 10 it is 8 at raw index 12 and 2 at raw index 22.
C4_CyclicIndex ==
    \A name \in DOMAIN tracks :
        LET track == tracks[name]
            n == Len(track.animation)
            i == getFrameIndex(track, time)
            pass == i \div n
            got == getFrameIndexCyclic(track, time)
        IN  /\ (pass % 2 = 0) => got + pass * n = i
            /\ (pass % 2 = 1) => got + i = (pass + 1) * n
            /\ (n = 10 /\ i = 12) => got = 8
            /\ (n = 10 /\ i = 22) => got = 2

\* C4 happens: a cyclic track of ten frames was updated at raw index 22 and
\* apply got frame 2.
C4_Witness ==
    /\ lastPlay.op = "play" /\ lastPlay.time = time
    /\ \E name \in DOMAIN tracks :
           /\ tracks[name].info.cyclic /\ ~tracks[name].info.reverse
           /\ Len(tracks[name].animation) = 10
           /\ getFrameIndex(tracks[name], time) = 22
           /\ lastPlay.applied = <<[name |-> name, frameIndex |-> 2, frameCount |-> 10]>>

\* The five fields of a key, as a bone or a key holds them.
KeyData(x) == KeyFrame(x.pivot, x.rotation, x.scale, x.zOrder, x.visible)

\* The clamped frame index of the track has reached its last frame.
ReachedEnd(track, currentTime) ==
    getFrameIndexClamped(track, currentTime) = Len(track.animation) - 1

\* C19: once the clamped frame index of an autoEnd track has reached the last
\* frame it stays there as the clock advances, a play call that lists the
\* track then makes no apply call for it and keeps it running as it is.
C19_AutoEndNotApplied ==
    [][\A n \in DOMAIN tracks :
           (tracks[n].info.autoEnd /\ ReachedEnd(tracks[n], time))
           => /\ time' >= time
              /\ (n \in DOMAIN tracks' /\ tracks'[n] = tracks[n])
                     => ReachedEnd(tracks'[n], time')
              /\ (lastPlay' # lastPlay /\ lastPlay'.op = "play"
                  /\ n \in Range(lastPlay'.names))
                     => /\ \A i \in 1..Len(lastPlay'.applied) :
                               lastPlay'.applied[i].name # n
                        /\ n \in DOMAIN tracks'
                        /\ tracks'[n] = tracks[n]]_vars

\* C19 happens: an autoEnd track that had posed a bone was at its end when
\* play listed it again; nothing was applied and it is still running.
C19_Witness ==
    /\ lastPlay.op = "play" /\ lastPlay.time = time
    /\ lastPlay.applied = <<>> /\ lastPlay.raised = "none"
    /\ \E n \in DOMAIN tracks :
           /\ lastPlay.names = <<n>> /\ lastPlay.before = {n}
           /\ tracks[n].info.autoEnd
           /\ tracks[n].startTime < time
           /\ ReachedEnd(tracks[n], time)
    /\ bones # SkinRig

\* C20: when a play call finds a plain autoEnd track (neither cyclic nor
\* repeating nor reversed) that has posed the bones at its end and does not
\* apply it, every bone that the last frame of the track's animation keys
\* holds the pose of that key.
C20_FrozenAtLastFrame ==
    (lastPlay.op = "play" /\ lastPlay.time = time /\ lastPlay.raised = "none"
     /\ ~lastPlay.rest /\ bones # SkinRig)
    => \A n \in DOMAIN tracks :
           (/\ lastPlay.names = <<n>> /\ lastPlay.before = {n}
            /\ lastPlay.applied = <<>>
            /\ tracks[n].info.autoEnd /\ ReachedEnd(tracks[n], time)
            /\ ~tracks[n].info.cyclic /\ ~tracks[n].info.repeat
            /\ ~tracks[n].info.reverse)
           => LET frames == Track(tracks[n].info, 0).animation
                  last == frames[Len(frames)]
              IN  \A b \in DOMAIN last \cap DOMAIN bones :
                      KeyData(bones[b]) = KeyData(last[b])

\* The bones that the rest step of the last play call has to ease: those that
\* no frame of a running track that is not auto-ended keys.
Unanimated == DOMAIN bones \ getAnimatedBoneNames(tracks, lastPlay.time)

\* C26: a play(infos, rest=True) call that has started, updated and stopped
\* its tracks eases exactly the bones that no active track keys, and so comes
\* back from the rest step whichever bones those are; with rest=False the
\* rest step is not taken.
C26_RestEasesUnanimated ==
    (lastPlay.op = "play" /\ lastPlay.raised \notin {"load", "index"})
        => /\ (lastPlay.rest /\ Unanimated # {}) => lastPlay.raised = "none"
           /\ (lastPlay.rest /\ Unanimated = {}) => lastPlay.raised = "none"
           /\ ~lastPlay.rest => lastPlay.raised = "none"

\* C27: a track that is not running, because an earlier play call did not list
\* it or because it was stopped, and that a play call asks for is created
\* anew by that call: its animation is loaded from the file again, its start
\* time is the clock of that call and its frame index at that clock is 0,
\* whatever ran under the name before.
C27_RestartedFromFirstFrame ==
    [][\A n \in DOMAIN tracks' \ DOMAIN tracks :
           /\ lastPlay'.op = "play" /\ n \in Range(lastPlay'.names)
           /\ lastPlay'.time = time /\ time' = time
           /\ tracks'[n].startTime = time
           /\ getFrameIndex(tracks'[n], time) = 0
           /\ \E done \in {bakeFrames(Track(tracks'[n].info, time).animation).frames} :
                  tracks'[n] = [Track(tracks'[n].info, time) EXCEPT !.animation = done]
                  \/ tracks'[n] = Track(tracks'[n].info, time)
           /\ \A i \in 1..Len(lastPlay'.applied) :
                  lastPlay'.applied[i].name = n => lastPlay'.applied[i].frameIndex = 0]_vars

\* C27 happens: "walk" had run and posed the arm with its second frame, was
\* removed, and a play call at a later clock started it again; that call did
\* not get to apply it, so the arm still shows the earlier run.
C27_Witness ==
    /\ lastPlay.op = "play" /\ lastPlay.time = time /\ time > 0
    /\ "walk" \in Range(lastPlay.names) /\ "walk" \notin lastPlay.before
    /\ "walk" \in DOMAIN tracks /\ tracks["walk"].startTime = time
    /\ lastPlay.applied = <<>>
    /\ KeyData(bones[Arm]) = KeyB

\* No animation loads for the name: the host finds no file, or the file was
\* written by another version.
Unloadable(name) ==
    name \notin {n \in DOMAIN AnimationFiles :
                     AnimationFiles[n].version = ANIMATION_VERSION}

\* The position in names, from i on, of the first name that play has to start
\* and that does not load; 0 if there is none.
RECURSIVE FirstFailure(_, _, _)
FirstFailure(names, running, i) ==
    IF i > Len(names) THEN 0
    ELSE IF names[i] \in running THEN FirstFailure(names, running, i + 1)
    ELSE IF Unloadable(names[i]) THEN i
    ELSE FirstFailure(names, running \cup {names[i]}, i + 1)

\* C22: when the load of a track's animation fails (missing file or version
\* mismatch) the play call that asked for it ends with that failure, at the
\* first such name: no track is registered under the name, then or ever, the
\* tracks that were running are all still there as they were, only the names
\* listed before it were started, and nothing after it was loaded, updated or
\* removed.
C22_FailedLoadRegistersNothing ==
    [][/\ \A n \in DOMAIN tracks' : ~Unloadable(n)
       /\ (lastPlay'.op = "play" /\ time' = time
           /\ lastPlay'.before = DOMAIN tracks /\ lastPlay'.time = time
           /\ FirstFailure(lastPlay'.names, DOMAIN tracks, 1) # 0)
          => LET k == FirstFailure(lastPlay'.names, DOMAIN tracks, 1)
             IN  /\ lastPlay'.raised = "load"
                 /\ lastPlay'.names[k] \notin DOMAIN tracks'
                 /\ \A n \in DOMAIN tracks :
                        n \in DOMAIN tracks' /\ tracks'[n] = tracks[n]
                 /\ DOMAIN tracks' =
                        DOMAIN tracks \cup {lastPlay'.names[j] : j \in 1..(k - 1)}
                 /\ lastPlay'.applied = <<>>
                 /\ bones' = bones]_vars

\* C22 happens, for either failure: while "walk" was running a play call
\* started "blink", failed to load the next name and left both tracks running,
\* "walk" with the start time it had.
C22_Witness ==
    /\ lastPlay.op = "play" /\ lastPlay.raised = "load" /\ lastPlay.time = time
    /\ lastPlay.before = {"walk"}
    /\ lastPlay.names \in {<<"blink", "ghost">>, <<"blink", "stale">>}
    /\ DOMAIN tracks = {"blink", "walk"}
    /\ tracks["walk"].startTime < time
    /\ tracks["blink"].startTime = time

\* The tracks the store holds for the player of a tag.
TracksOf(st, tag) ==
    IF FullTag(tag) \in DOMAIN st THEN st[FullTag(tag)] ELSE EmptyMap

\* C32: players built with the same tag on the same store share one track set
\* that persists from tick to tick: a play or stop on a new player of a tag
\* starts from the tracks the last player of that tag left, the host's tick
\* leaves every track set as it is, and a play or stop on the player of one
\* tag leaves the track set of every other tag as it was.
C32_TagsKeepTheirTracks ==
    [][ /\ \A tag \in Tags :
               TracksOf(playerStore', tag) # TracksOf(playerStore, tag)
                   => lastPlay'.op \in {"play", "stop"} /\ lastPlay'.tag = tag
        /\ (lastPlay' # lastPlay /\ lastPlay'.op \in {"play", "stop"})
               => /\ lastPlay'.before = DOMAIN TracksOf(playerStore, lastPlay'.tag)
                  /\ tracks' = TracksOf(playerStore', lastPlay'.tag)
                  /\ lastPlay'.raised = "none" =>
                         \A n \in lastPlay'.before \cap DOMAIN tracks' :
                             tracks'[n].startTime =
                                 TracksOf(playerStore, lastPlay'.tag)[n].startTime
        /\ time' # time => playerStore' = playerStore ]_vars

\* C32 happens: the players of two tags hold different tracks, started at
\* different times, and the last call was a play on a later player of one tag
\* that found the track the earlier player of that tag had started.
C32_Witness ==
    /\ lastPlay.op = "play" /\ lastPlay.raised = "none"
    /\ lastPlay.tag = "cat" /\ lastPlay.before = {"walk"}
    /\ DOMAIN TracksOf(playerStore, "cat") = {"walk"}
    /\ DOMAIN TracksOf(playerStore, DefaultTag) = {"blink"}
    /\ TracksOf(playerStore, "cat")["walk"].startTime < time
    /\ TracksOf(playerStore, DefaultTag)["blink"].startTime
           # TracksOf(playerStore, "cat")["walk"].startTime

\* The position of a track name in the order Python sorts names in.
NameIndex(n) == CHOOSE i \in 1..Len(TrackOrder) : TrackOrder[i] = n

\* The infos a call of play in a scene of blended tracks listed, and the
\* tracks that ran when its updateAnimations began: those the store held for
\* the player and those the call started.
ListedInfos(call) == [i \in 1..Len(call.names) |-> BlendInfo(call.names[i])]
StartedBy(st, call) ==
    startTracks(TracksOf(st, call.tag), ListedInfos(call), 1, call.time).tracks

\* apply of the track's animation at the frame index poses the bone: the
\* baked frames hold a key for it at or before and at or after that frame.
PosedBy(track, frameIndex, boneName) ==
    \E range \in {findKeyFrameRange(bakeFrames(track.animation).baked,
                                    frameIndex, boneName)} :
        range.start # None /\ range.end # None

\* The apply calls of a play call that posed the bone.
Posing(started, applied, boneName) ==
    {e \in Range(applied) : PosedBy(started[e.name], e.frameIndex, boneName)}

\* The bone as the play call left it is the bone as the apply call e alone
\* would have left it.
PoseOf(started, e, now, bs, after, boneName) ==
    after[boneName] =
        updateAnimations(started, <<e.name>>, 1, now, bs, <<>>).bones[boneName]

\* The lists with the same entries as a list of distinct entries.
Reorderings(list) ==
    {other \in [1..Len(list) -> Range(list)] : Range(other) = Range(list)}

\* What a play call that got through updateAnimations did to the bones, given
\* the tracks that ran in it.
BlendedBy(started, call, bs, after) ==
    /\ {e.name : e \in Range(call.applied)} = DOMAIN started
    /\ \A i, j \in 1..Len(call.applied) :
           i < j => NameIndex(call.applied[i].name) < NameIndex(call.applied[j].name)
    /\ \A b \in DOMAIN bs :
           /\ Posing(started, call.applied, b) = {} => after[b] = bs[b]
           /\ \A e \in Posing(started, call.applied, b) :
                  (\A f \in Posing(started, call.applied, b) :
                       NameIndex(f.name) <= NameIndex(e.name))
                      => PoseOf(started, e, call.time, bs, after, b)

Running(st, call, n) == TracksOf(st, call.tag)[n]

\* C35: a running track keeps the TrackInfo it was started with: a play call
\* that lists the name of a running track, with whatever info, leaves the
\* track's info, its animation and its start time as they were, and what it
\* applies is the frame the track's own info gives.
C35_RelistedKeepsInfo ==
    [][ (lastPlay' # lastPlay /\ lastPlay'.op = "play")
            => \A i \in 1..Len(lastPlay'.infos) :
                   lastPlay'.infos[i].name \in lastPlay'.before
                       => \E n \in {lastPlay'.infos[i].name} :
                           /\ n \in DOMAIN tracks'
                           /\ tracks'[n] = Running(playerStore, lastPlay', n)
                           /\ \A e \in Range(lastPlay'.applied) :
                                  e.name = n =>
                                      e.frameIndex =
                                          updateTrack(Running(playerStore, lastPlay', n),
                                                      time).frameIndex ]_vars

\* C35 happens: "walk" runs forward at speed 1 since an earlier tick and was
\* listed again, reversed, repeating and at speed 2; it was applied at the
\* frame its own info gives.
C35_Witness ==
    /\ lastPlay.op = "play" /\ lastPlay.raised = "none"
    /\ lastPlay.before = {"walk"} /\ Len(lastPlay.infos) = 1
    /\ lastPlay.infos[1].name = "walk"
    /\ lastPlay.infos[1].reverse /\ lastPlay.infos[1].repeat
    /\ lastPlay.infos[1].speed = 2
    /\ ~tracks["walk"].info.reverse /\ ~tracks["walk"].info.repeat
    /\ tracks["walk"].info.speed = 1
    /\ tracks["walk"].startTime < time
    /\ Len(lastPlay.applied) = 1 /\ lastPlay.applied[1].frameIndex > 0

----------------------------------------------------------------------------
(* Properties of the animation track                                        *)

\* The last call was an apply that returned.
Applied == lastAnim.op = "apply" /\ ~lastAnim.raised

\* got is the linear interpolation of a (at frame s) and b (at frame e) at
\* frame f.
IsLerp(got, a, b, s, e, f) == got * (e - s) = a * (e - f) + b * (f - s)

\* C11: apply(f, bones) gives every bone that the animation keys at frame f
\* exactly the pivot, rotation, scale, zOrder and visible stored in that key,
\* whatever the frame count and wherever the bone's other keys are.
C11_KeyedFrameVerbatim ==
    Applied =>
        \A n \in DOMAIN bones :
            n \in DOMAIN lastAnim.before[lastAnim.frame + 1]
                => KeyData(bones[n]) = lastAnim.before[lastAnim.frame + 1][n]

\* C12: for a bone keyed at frames s < e and at no frame between them,
\* apply(f) with s < f < e gives pivot, rotation and scale the linear
\* interpolation of the two stored keys at weight (f - s)/(e - s), and zOrder
\* and visible of the key at s.
C12_Interpolated ==
    Applied =>
        \A n \in DOMAIN bones :
            LET f == lastAnim.frame
                stored == lastAnim.before
                keyed == {i \in 0..(Len(stored) - 1) : n \in DOMAIN stored[i + 1]}
            IN  \A s \in keyed, e \in keyed :
                    (s < f /\ f < e /\ ~\E k \in keyed : s < k /\ k < e) =>
                        LET a == stored[s + 1][n]
                            b == stored[e + 1][n]
                            got == bones[n]
                        IN  /\ \A c \in 1..2 :
                                   IsLerp(got.pivot[c], a.pivot[c], b.pivot[c], s, e, f)
                            /\ \A c \in {"x", "y", "z"} :
                                   /\ IsLerp(got.rotation[c], a.rotation[c],
                                             b.rotation[c], s, e, f)
                                   /\ IsLerp(got.scale[c], a.scale[c], b.scale[c],
                                             s, e, f)
                            /\ got.zOrder = a.zOrder
                            /\ got.visible = a.visible

\* The frames of stored that key the bone n.
KeyedFrames(stored, n) == {i \in 0..(Len(stored) - 1) : n \in DOMAIN stored[i + 1]}

\* C23: bakeFrames and apply never change the animation's stored keyframes:
\* after apply(f, bones) the animation has the frames it had before the call,
\* every frame with the same keys of the same content.
C23_StoredKeysKept ==
    lastAnim.op = "apply" => anim = lastAnim.before

\* The frames that key the bone n in the frames apply has baked from stored.
BakedFrames(stored, n) ==
    {i \in 0..(Len(stored) - 1) : n \in DOMAIN bakeFrames(stored).baked[i + 1]}

\* C24: apply(f, bones) changes a bone only if the baked animation has a key
\* for it at or before f and a key at or after f: a bone the animation keys
\* nowhere, and a bone whose baked keys are all before f or all after f, is
\* after the call as it was before it.
C24_ChangesOnlyBracketed ==
    Applied =>
        \A n \in DOMAIN bones :
            LET f == lastAnim.frame
                keyed == BakedFrames(lastAnim.before, n)
            IN  /\ bones[n] # lastAnim.rig[n]
                       => /\ \E s \in keyed : s <= f
                          /\ \E e \in keyed : e >= f
                /\ \A i \in 0..(Len(lastAnim.before) - 1) :
                       n \in DOMAIN lastAnim.before[i + 1] => i \in keyed

\* C24 happens: apply(1, bones) found the hip keyed at frame 0 only, the hair
\* keyed nowhere and the arm keyed at frame 3 only and then at frame 0 only,
\* and left all three as they were; an earlier call had posed the hip.
C24_Witness ==
    /\ Applied /\ lastAnim.frame = 1
    /\ BakedFrames(lastAnim.before, Hip) = {0}
    /\ BakedFrames(lastAnim.before, Hair) = {}
    /\ BakedFrames(lastAnim.before, Arm) \in {{0}, {3}}
    /\ bones = lastAnim.rig
    /\ bones[Hip] # SkinRig[Hip]

\* What findKeyFrameRange is to give for the bone n at frame f of frames: the
\* greatest keyed frame at or before f and the least keyed frame at or after
\* f, None where there is none.
Bracket(frames, f, n) ==
    LET keyed == {i \in 0..(Len(frames) - 1) : n \in DOMAIN frames[i + 1]}
        before == {i \in keyed : i <= f}
        after == {i \in keyed : i >= f}
    IN  [start |-> IF before = {} THEN None
                   ELSE Some(CHOOSE i \in before : \A j \in before : j <= i),
         end |-> IF after = {} THEN None
                 ELSE Some(CHOOSE i \in after : \A j \in after : i <= j)]

\* C25: for 0 <= f < frame count findKeyFrameRange returns as start the
\* greatest frame at or before f that keys the bone and as end the least such
\* frame at or after f, None where there is none, and start = end = f when
\* frame f keys the bone; for the stored frames at every f and for the baked
\* frames at the frame apply was called with.
C25_RangeBrackets ==
    /\ \A n \in DOMAIN bones, f \in 0..(Len(anim) - 1) :
           /\ findKeyFrameRange(anim, f, n) = Bracket(anim, f, n)
           /\ n \in DOMAIN anim[f + 1]
                  => findKeyFrameRange(anim, f, n) = [start |-> Some(f), end |-> Some(f)]
    /\ Applied =>
           \A n \in DOMAIN bones :
               findKeyFrameRange(bakeFrames(lastAnim.before).baked, lastAnim.frame, n)
                   = Bracket(bakeFrames(lastAnim.before).baked, lastAnim.frame, n)

\* C25 happens: apply(2, bones) looked up the arm, keyed at frames 1 and 3
\* only, and the hip, keyed at frame 0 only; the ranges are (1, 3) and
\* (0, None), and (None, 1) for the arm at frame 0.
C25_Witness ==
    /\ Applied /\ lastAnim.frame = 2
    /\ KeyedFrames(lastAnim.before, Arm) = {1, 3}
    /\ KeyedFrames(lastAnim.before, Hip) = {0}
    /\ KeyedFrames(anim, Arm) = {1, 3} /\ KeyedFrames(anim, Hip) = {0}
    /\ findKeyFrameRange(anim, 2, Arm) = [start |-> Some(1), end |-> Some(3)]
    /\ findKeyFrameRange(anim, 2, Hip) = [start |-> Some(0), end |-> None]
    /\ findKeyFrameRange(anim, 0, Arm) = [start |-> None, end |-> Some(1)]
    /\ bones[Arm] # SkinRig[Arm]

\* C28: a track created with clip set keeps a prefix of the loaded frames,
\* each as it was loaded, and drops exactly the frames without keys at the
\* end: every dropped frame has no key, the last kept frame has a key or is
\* frame 0, and at least one frame remains; without clip every frame stays.
C28_ClipsTrailingEmptyFrames ==
    /\ lastAnim.op = "clip" =>
           /\ Len(anim) >= 1 /\ Len(anim) <= Len(lastAnim.before)
           /\ anim = SubSeq(lastAnim.before, 1, Len(anim))
           /\ \A i \in (Len(anim) + 1)..Len(lastAnim.before) :
                  DOMAIN lastAnim.before[i] = {}
           /\ Len(anim) = 1 \/ DOMAIN anim[Len(anim)] # {}
    /\ lastAnim.op = "load" => anim = lastAnim.before

\* C28 happens: of four frames with keys in frames 0 and 2 only, the frame
\* without keys at the end was dropped and the one in the middle was kept.
C28_Witness ==
    /\ lastAnim.op = "clip"
    /\ Len(lastAnim.before) = 4 /\ Len(anim) = 3
    /\ DOMAIN anim[1] # {} /\ DOMAIN anim[2] = {} /\ DOMAIN anim[3] # {}

\* The last call was an update, which ends with cleanupDuplicateKeys.
Cleaned == lastAnim.op = "update"

\* a < b are keyed frames of n with no keyed frame between them.
Adjacent(stored, n, a, b) ==
    /\ a \in KeyedFrames(stored, n) /\ b \in KeyedFrames(stored, n) /\ a < b
    /\ ~\E k \in KeyedFrames(stored, n) : a < k /\ k < b

\* a < b < c are three consecutive keyed frames of n with identical content.
IdenticalTriple(stored, n, a, b, c) ==
    /\ Adjacent(stored, n, a, b) /\ Adjacent(stored, n, b, c)
    /\ stored[a + 1][n] = stored[b + 1][n] /\ stored[b + 1][n] = stored[c + 1][n]

C14_RemovesEditedDuplicate ==
    Cleaned =>
        LET f == lastAnim.frame
            stored == lastAnim.before
        IN  /\ Len(anim) = Len(stored)
            /\ \A n \in DOMAIN bones :
                   LET neighbour ==
                           \E k \in KeyedFrames(stored, n) :
                               /\ Adjacent(stored, n, k, f) \/ Adjacent(stored, n, f, k)
                               /\ stored[k + 1][n] = stored[f + 1][n]
                       removed == IF f > 0 /\ f \in KeyedFrames(stored, n) /\ neighbour
                                  THEN {f} ELSE {}
                   IN  /\ KeyedFrames(anim, n) = KeyedFrames(stored, n) \ removed
                       /\ \A k \in KeyedFrames(anim, n) :
                              anim[k + 1][n] = stored[k + 1][n]

\* C14 happens: the arm was keyed {0: A, 2: A, 3: B}, the edit was at frame
\* 2, and only the key at 2 is gone.
C14_Witness ==
    /\ Cleaned /\ lastAnim.frame = 2
    /\ KeyedFrames(lastAnim.before, Arm) = {0, 2, 3}
    /\ lastAnim.before[1][Arm] = lastAnim.before[3][Arm]
    /\ lastAnim.before[3][Arm] # lastAnim.before[4][Arm]
    /\ KeyedFrames(anim, Arm) = {0, 3}

----------------------------------------------------------------------------
(* Properties of the editor's picking                                       *)

\* The tick handled exactly one event and it was of this type.
OneEvent(seen, type) == Len(seen.events) = 1 /\ seen.events[1].type = type

\* The bones whose pivot is within the pick radius of pos.
NearPivot(bs, pos) ==
    {n \in DOMAIN bs :
        distanceSquared(bs[n].pivot, pos) < PICK_DISTANCE_PIVOT * PICK_DISTANCE_PIVOT}

\* The bones with an image that has an edge within the pick radius of pos.
NearCrop(bs, pos) ==
    {n \in DOMAIN bs :
        /\ bs[n].image # None
        /\ \E i \in 1..4 :
               lineToPointSquared(getImageLines(bs[n])[i], getImageLines(bs[n])[i + 1],
                                  pos) < PICK_DISTANCE_CROP * PICK_DISTANCE_CROP}

\* C15: with pivot picking and image-area picking both enabled and no modal
\* edit active, a pointer-down within the pick radius of a bone's pivot and of
\* a crop edge makes the bone with the nearest pivot active and starts a
\* pivot-drag of it from the pointer's position and the bone's pivot; no
\* position-drag is started.
C15_PivotBeforeCrop ==
    [][(/\ OneEvent(lastEvent', "MOUSEBUTTONDOWN")
        /\ lastEvent'.settings.pivots /\ lastEvent'.settings.imageAreas
        /\ store.active = None
        /\ NearPivot(bones, lastEvent'.events[1].pos) # {}
        /\ NearCrop(bones, lastEvent'.events[1].pos) # {})
       => LET pos == lastEvent'.events[1].pos IN
          /\ store'.activeBoneName # None
          /\ store'.activeBoneName[1] \in NearPivot(bones, pos)
          /\ \A n \in NearPivot(bones, pos) :
                 distanceSquared(bones[store'.activeBoneName[1]].pivot, pos)
                     <= distanceSquared(bones[n].pivot, pos)
          /\ store'.dragPivot =
                 Some(<<store'.activeBoneName[1], pos,
                        bones[store'.activeBoneName[1]].pivot>>)
          /\ store'.dragPos = None
          /\ store'.active = None]_vars

\* C15 happens: the hip's image was dragged until its left edge passes by
\* the arm's pivot; a pointer-down there picked the arm by its pivot.
C15_Witness ==
    /\ OneEvent(lastEvent, "MOUSEBUTTONDOWN")
    /\ lastEvent.settings.pivots /\ lastEvent.settings.imageAreas
    /\ store.active = None
    /\ NearCrop(bones, lastEvent.events[1].pos) = {Hip}
    /\ NearPivot(bones, lastEvent.events[1].pos) = {Arm}
    /\ store.activeBoneName = Some(Arm)
    /\ store.dragPivot = Some(<<Arm, lastEvent.events[1].pos, bones[Arm].pivot>>)
    /\ store.dragPos = None

----------------------------------------------------------------------------
(* Properties of the editor's drags                                         *)

\* old moved by the way of the pointer from from to to.
Dragged(old, from, to) == <<old[1] + (to[1] - from[1]), old[2] + (to[2] - from[2])>>

\* drag, if it is one, was started by a pointer-down at pos on a bone whose
\* attribute (pivot or pos) was as bs has it.
StartedAt(drag, bs, pos, attribute) ==
    drag # None =>
        /\ drag[1][1] \in DOMAIN bs
        /\ drag[1][2] = pos
        /\ drag[1][3] = IF attribute = "pivot" THEN bs[drag[1][1]].pivot
                        ELSE bs[drag[1][1]].pos

\* C29: after a pointer-up no drag is in progress, after a pointer-down the
\* only drag in progress is one that this pointer-down started, at its
\* position and with the value the bone had then, and a pointer move while no
\* drag is in progress changes no bone's pivot or pos.
C29_NoDragSurvives ==
    [][/\ OneEvent(lastEvent', "MOUSEBUTTONUP")
              => store'.dragPivot = None /\ store'.dragPos = None
       /\ OneEvent(lastEvent', "MOUSEBUTTONDOWN")
              => /\ StartedAt(store'.dragPivot, bones, lastEvent'.events[1].pos, "pivot")
                 /\ StartedAt(store'.dragPos, bones, lastEvent'.events[1].pos, "pos")
       /\ (OneEvent(lastEvent', "MOUSEMOTION")
           /\ store.dragPivot = None /\ store.dragPos = None)
              => /\ DOMAIN bones' = DOMAIN bones
                 /\ \A n \in DOMAIN bones :
                        bones'[n].pivot = bones[n].pivot /\ bones'[n].pos = bones[n].pos]_vars

\* C30: a drag holds the bone, the pointer's position and the bone's pivot
\* (respectively pos) of the pointer-down that started it, unchanged for as
\* long as it runs, and a pointer move to p during it sets the bone's pivot
\* (respectively pos) to that value plus (p - that position), whatever the
\* moves before it were.
C30_DragFollowsPointer ==
    [][/\ (OneEvent(lastEvent', "MOUSEBUTTONDOWN") /\ store.active = None)
              => /\ StartedAt(store'.dragPivot, bones, lastEvent'.events[1].pos, "pivot")
                 /\ StartedAt(store'.dragPos, bones, lastEvent'.events[1].pos, "pos")
       /\ (/\ Len(lastEvent'.events) <= 1
           /\ ~OneEvent(lastEvent', "MOUSEBUTTONUP")
           /\ ~(OneEvent(lastEvent', "MOUSEBUTTONDOWN") /\ store.active = None))
              => store'.dragPivot = store.dragPivot /\ store'.dragPos = store.dragPos
       /\ (OneEvent(lastEvent', "MOUSEMOTION") /\ store.dragPivot # None)
              => bones'[store.dragPivot[1][1]].pivot =
                     Dragged(store.dragPivot[1][3], store.dragPivot[1][2],
                             lastEvent'.events[1].pos)
       /\ (OneEvent(lastEvent', "MOUSEMOTION") /\ store.dragPos # None)
              => bones'[store.dragPos[1][1]].pos =
                     Dragged(store.dragPos[1][3], store.dragPos[1][2],
                             lastEvent'.events[1].pos)]_vars

\* C30 happens, for both drags: the hip's pivot was dragged off its image's
\* edge, to the arm's pivot, and then the image was dragged by that edge from
\* the first position to the second, where the last move left it.
C30_Witness ==
    /\ OneEvent(lastEvent, "MOUSEMOTION") /\ lastEvent.events[1].pos = <<30, 0>>
    /\ bones[Hip].pivot = Dragged(EditRig[Hip].pivot, <<0, 0>>, <<30, 0>>)
    /\ store.dragPivot = None
    /\ store.dragPos = Some(<<Hip, <<0, 0>>, EditRig[Hip].pos>>)
    /\ bones[Hip].pos = Dragged(EditRig[Hip].pos, <<0, 0>>, <<30, 0>>)

\* C36: at every point of any event sequence at most one of the pivot-drag
\* and the position-drag is in progress.
C36_OneDragAtMost == store.dragPivot = None \/ store.dragPos = None

\* C36 happens: with both pickers on, the pointer went down where a pivot and
\* an image's edge are both in reach; the pivot is dragged, the image is not.
C36_Witness ==
    /\ OneEvent(lastEvent, "MOUSEBUTTONDOWN")
    /\ lastEvent.settings = Settings(TRUE, TRUE)
    /\ store.dragPivot # None /\ store.dragPos = None
    /\ pickCrop(bones, computeBoneTransforms(bones), lastEvent.events[1].pos) # None

----------------------------------------------------------------------------
(* Properties of the modal edits                                            *)

\* The last event was a click with this button that ended a rotate or scale
\* edit.
EndedAttributeEdit(button) ==
    /\ ~lastEvent.raised
    /\ lastEvent.ended # None
    /\ lastEvent.ended[1].edit.kind = "attribute"
    /\ lastEvent.ended[1].button = button

\* The value the ended edit's attribute has now, had before the click, had
\* when the edit was started, and had before the first edit of its run.
EndedValue == getValue(bones[lastEvent.ended[1].edit.bone],
                       lastEvent.ended[1].edit.attribute)
ClickedValue == lastEvent.ended[1].value
BeganValue ==
    IF lastEvent.ended[1].edit.attribute = "rotation.z"
    THEN lastEvent.ended[1].began[1].rotation
    ELSE lastEvent.ended[1].began[1].scale

\* C16: for a rotate or scale edit started while no other modal edit was
\* active, a right click restores the edited attribute to the value it had
\* when the edit started, and a left click keeps the value the edit set last.
C16_CancelRestoresCommitKeeps ==
    /\ (EndedAttributeEdit(3) /\ lastEvent.ended[1].began[1].alone)
           => EndedValue = BeganValue
    /\ (EndedAttributeEdit(1) /\ lastEvent.ended[1].began[1].alone)
           => EndedValue = ClickedValue

\* C16 happens: an edit started alone had moved its attribute away from the
\* value it started with, and the right click brought that value back.
C16_Witness ==
    /\ EndedAttributeEdit(3) /\ lastEvent.ended[1].began[1].alone
    /\ ClickedValue # BeganValue
    /\ EndedValue = BeganValue

\* C17: at most one modal edit is active, and when a right click ends a run
\* of rotate and scale edits on a bone of which none was committed, each one
\* superseded by the next, the bone's rotation and scale are what they were
\* before the first edit of the run.
C17_UncommittedRunRestores ==
    /\ Len(store.active) <= 1
    /\ (EndedAttributeEdit(3) /\ lastEvent.ended[1].chain # None)
           => /\ bones[lastEvent.ended[1].edit.bone].rotation.z
                     = lastEvent.ended[1].chain[1].rotation
              /\ bones[lastEvent.ended[1].edit.bone].scale.y
                     = lastEvent.ended[1].chain[1].scale

\* C18: the left click that commits an extrude adds exactly one bone, named
\* by the base of the name of the bone the extrude was started on and the
\* least positive index that is free; every bone of before is kept, the
\* parent gaining the new bone as its last child; the new bone's parent is
\* that bone, its pivot the pointer position of the click, and it is the
\* active bone.
C18_ExtrudeCommit ==
    [][(/\ store.active # None /\ store.active[1].kind = "extrude"
        /\ OneEvent(lastEvent', "MOUSEBUTTONDOWN")
        /\ lastEvent'.events[1].button = 1)
       => LET parentName == store.active[1].bone
              base == bones[parentName].name.base
              added == DOMAIN bones' \ DOMAIN bones
          IN  /\ DOMAIN bones \subseteq DOMAIN bones'
              /\ Cardinality(added) = 1
              /\ \A n \in added :
                     /\ n.base = base /\ n.suffix # <<>> /\ n.suffix[1] >= 1
                     /\ \A k \in 1..(n.suffix[1] - 1) : NameIdx(base, k) \in DOMAIN bones
                     /\ bones'[n].name = n
                     /\ bones'[n].parent = Some(parentName)
                     /\ bones'[n].pivot = lastEvent'.events[1].pos
                     /\ bones'[n].children = <<>>
                     /\ bones'[parentName] =
                            [bones[parentName] EXCEPT !.children = Append(@, n)]
                     /\ store'.activeBoneName = Some(n)
              /\ \A b \in DOMAIN bones \ {parentName} : bones'[b] = bones[b]
              /\ store'.active = None]_vars

\* C18 happens: an extrude started on "doll hip 1" was committed with the
\* pointer elsewhere than where it started, and "doll hip 2" is its child.
C18_Witness ==
    /\ OneEvent(lastEvent, "MOUSEBUTTONDOWN")
    /\ lastEvent.ended # None
    /\ lastEvent.ended[1].edit.kind = "extrude"
    /\ lastEvent.ended[1].button = 1
    /\ lastEvent.ended[1].edit.bone = NameIdx("doll hip", 1)
    /\ lastEvent.ended[1].edit.mouse # lastEvent.events[1].pos
    /\ NameIdx("doll hip", 2) \in DOMAIN bones
    /\ bones[NameIdx("doll hip", 2)].parent = Some(NameIdx("doll hip", 1))
    /\ bones[NameIdx("doll hip", 2)].pivot = lastEvent.events[1].pos
    /\ bones[NameIdx("doll hip", 2)].pivot # bones[NameIdx("doll hip", 1)].pivot
    /\ store.activeBoneName = Some(NameIdx("doll hip", 2))

\* The last tick was one pointer-down that came while a modal edit was active.
ClickedInEdit(st, seen) ==
    OneEvent(seen, "MOUSEBUTTONDOWN") /\ st.active # None /\ ~seen.raised

\* C37: while a modal edit is active a pointer-down is consumed by the mode:
\* it ends the edit and is not picked with, so the active bone stays the one
\* it was, or becomes the new bone when button 1 commits an extrude, and no
\* pivot-drag or position-drag starts.
C37_ClickInEditPicksNothing ==
    [][ ClickedInEdit(store, lastEvent')
            => /\ lastEvent'.ended # None
               /\ store'.dragPivot = store.dragPivot
               /\ store'.dragPos = store.dragPos
               /\ \/ store'.activeBoneName = store.activeBoneName
                  \/ /\ store.active[1].kind = "extrude"
                     /\ lastEvent'.events[1].button = 1
                     /\ store'.activeBoneName # None
                     /\ store'.activeBoneName[1] \in DOMAIN bones' \ DOMAIN bones ]_vars

\* C37 happens: the hip was being rotated or scaled when the pointer went
\* down on the arm's pivot, with both pickers on; the hip is still the active
\* bone and nothing is dragged.
C37_Witness ==
    /\ OneEvent(lastEvent, "MOUSEBUTTONDOWN")
    /\ lastEvent.settings = Settings(TRUE, TRUE)
    /\ lastEvent.events[1].pos = bones[Arm].pivot
    /\ lastEvent.ended # None
    /\ lastEvent.ended[1].edit.kind = "attribute"
    /\ lastEvent.ended[1].edit.bone = Hip
    /\ store.activeBoneName = Some(Hip)
    /\ store.dragPivot = None /\ store.dragPos = None

\* C38: a modal edit ends only by commit (a pointer-down with button 1), by
\* cancel (button 3) or by a key that starts the edit that supersedes it; a
\* pointer-down with any other button leaves the edit active as it was.
C38_EndsByCommitOrCancel ==
    [][ /\ (ClickedInEdit(store, lastEvent')
                /\ lastEvent'.events[1].button \notin {1, 3})
               => store'.active = store.active
        /\ (Len(lastEvent'.events) <= 1 /\ ~lastEvent'.raised
                /\ store.active # None /\ store'.active # store.active)
               => \/ /\ OneEvent(lastEvent', "MOUSEBUTTONDOWN")
                     /\ lastEvent'.events[1].button \in {1, 3}
                     /\ store'.active = None
                  \/ /\ OneEvent(lastEvent', "KEYDOWN")
                     /\ store'.active # None ]_vars

\* The tick held a key that starts an edit.
EditKeyed(seen) ==
    \E i \in 1..Len(seen.events) :
        seen.events[i].type = "KEYDOWN" /\ seen.events[i].unicode \in DOMAIN EditKeys

\* C39: within a tick the transform map has an entry for whichever bone is
\* active, so a key that starts a rotate, scale or extrude edit on the active
\* bone never fails, in whatever order the tick's events come, also after an
\* extrude was committed earlier in the tick; and the bone that is active
\* after the tick is a bone of the rig.
C39_ActiveBoneHasTransform ==
    /\ EditKeyed(lastEvent) => ~lastEvent.raised
    /\ store.activeBoneName # None => store.activeBoneName[1] \in DOMAIN bones

----------------------------------------------------------------------------
(* Properties of the mesh build                                             *)

\* The last call built, or refused to build, the mesh of a bone.
MeshBuilt == lastRig.op = "mesh"

\* The bone of that call, the numbers per vertex of its module, and the
\* vertex and index arrays the bone holds.
MeshBone == bones[lastRig.bone[1]]
MeshStride == IF "mesh" \in DOMAIN MeshBone THEN 2 ELSE 4
MeshVertices ==
    IF "mesh" \in DOMAIN MeshBone THEN MeshBone.mesh[1].vertices[1]
    ELSE MeshBone.vertices[1]
MeshIndices ==
    IF "mesh" \in DOMAIN MeshBone THEN MeshBone.mesh[1].indices[1]
    ELSE MeshBone.indices[1]

\* How many points the entries of a triangle list hold together.
RECURSIVE PointCount(_)
PointCount(triangles) ==
    IF triangles = <<>> THEN 0 ELSE Len(Head(triangles)) + PointCount(Tail(triangles))

\* C21: a build from T triangles emits three vertices and three indices per
\* triangle, the indices being 0..3T-1 in order and every vertex the point it
\* was made from, and does not raise; for any list, RuntimeError is raised
\* exactly when a third of the number of vertices made is not the number of
\* entries.
C21_ThreePerTriangle ==
    MeshBuilt =>
        LET triangles == MeshBone.triangles
            T == Len(triangles)
        IN  /\ lastRig.raised <=> (PointCount(triangles) \div 3 # T)
            /\ (\A t \in 1..T : Len(triangles[t]) = 3)
                   => /\ ~lastRig.raised
                      /\ Len(MeshVertices) = 3 * T * MeshStride
                      /\ MeshIndices = [k \in 1..(3 * T) |-> k - 1]
                      /\ \A t \in 1..T, c \in 1..3 :
                             LET at == (3 * (t - 1) + (c - 1)) * MeshStride
                             IN  /\ MeshVertices[at + 1] = triangles[t][c][1]
                                 /\ MeshVertices[at + 2] = triangles[t][c][2]

\* C21 happens: a mesh was built from three triangles and has nine vertices.
C21_Witness ==
    /\ MeshBuilt /\ ~lastRig.raised
    /\ Len(MeshBone.triangles) = 3
    /\ \A t \in 1..3 : Len(MeshBone.triangles[t]) = 3
    /\ MeshIndices = <<0, 1, 2, 3, 4, 5, 6, 7, 8>>

\* The last call computed the weights of a bone that has vertices.
Weighted ==
    /\ lastRig.op = "weights" /\ ~lastRig.raised
    /\ bones[lastRig.bone[1]].boneIndices # None

\* The bones other than the root whose line from the parent's pivot to the
\* pivot is nearest the vertex.
NearestNonRoot(bs, vertex) ==
    {n \in DOMAIN bs :
        /\ bs[n].parent # None
        /\ \A other \in DOMAIN bs :
               bs[other].parent # None
                   => lineToPointSquared(bs[n].pivot, bs[bs[n].parent[1]].pivot, vertex)
                          <= lineToPointSquared(bs[other].pivot,
                                                bs[bs[other].parent[1]].pivot, vertex)}

\* C31: updateWeights never selects the root bone: for every vertex the bone
\* index written is that of a bone with a parent, the one whose line from the
\* parent's pivot to its pivot is nearest the vertex, with weight 1 in the
\* first slot and 0 in the three others.
C31_RootNeverInfluences ==
    Weighted =>
        LET bone == bones[lastRig.bone[1]]
            transforms == computeBoneTransforms(bones)
        IN  /\ Len(bone.boneIndices[1]) = Len(bone.vertices[1])
            /\ Len(bone.boneWeights[1]) = Len(bone.vertices[1])
            /\ \A i \in 1..(Len(bone.vertices[1]) \div 4) :
                   /\ bones[transforms[bone.boneIndices[1][4 * (i - 1) + 1] + 1]].parent # None
                   /\ transforms[bone.boneIndices[1][4 * (i - 1) + 1] + 1]
                          \in NearestNonRoot(bones, vertexAt(bone.vertices[1], i))
                   /\ SubSeq(bone.boneWeights[1], 4 * (i - 1) + 1, 4 * i) = <<1, 0, 0, 0>>
                   /\ SubSeq(bone.boneIndices[1], 4 * (i - 1) + 2, 4 * i) = <<0, 0, 0>>

----------------------------------------------------------------------------
(* Properties of the render pass                                            *)

\* The calls of the last pass, and the GL context after the first i of them.
Calls == lastRender.calls
GLAfter(i) == glRun(lastRender.before, SubSeq(Calls, 1, i))
IsDraw(i) == Calls[i].call \in {"glDrawArrays", "glDrawElements"}
Draws == {i \in 1..Len(Calls) : IsDraw(i)}

\* C33: in every render pass each draw is made with the shader in use and
\* with exactly the attribute arrays of the renderer enabled that the shader
\* has; after the draw these are disabled again before anything else is
\* enabled or drawn, so no draw begins inside another's bindings; there is one
\* draw for every model or bone; and when render returns no program is in use
\* and no texture is bound to any unit.
C33_BindDrawUnbind ==
    lastRender.op # "none" =>
        /\ \A i \in Draws :
               /\ GLAfter(i - 1).program = "shader"
               /\ GLAfter(i - 1).enabled = lastRender.located
               /\ \E j \in i..Len(Calls) :
                      /\ GLAfter(j).enabled = {}
                      /\ \A k \in (i + 1)..j :
                             /\ ~IsDraw(k)
                             /\ Calls[k].call # "glEnableVertexAttribArray"
        /\ Cardinality(Draws) = lastRender.draws
        /\ glState = GLAfter(Len(Calls))
        /\ glState.program = "none"
        /\ glState.enabled = {}
        /\ \A unit \in DOMAIN glState.units : glState.units[unit] = "none"

\* C33 happens: a skinned pass drew a bone, its child and its grandchild with
\* a shader that has the vertex attribute, each draw with the bone's two
\* textures bound.
C33_Witness ==
    /\ lastRender.op = "skinned" /\ lastRender.located = {"inVertex"}
    /\ Cardinality(Draws) = 3
    /\ \E i \in Draws :
           /\ Calls[i].arg = "hand"
           /\ GLAfter(i).units = (0 :> <<"hand", ".image">>)
                                   @@ (1 :> <<"hand", ".imageWeights">>)
    /\ {"glUseProgram", "glEnableVertexAttribArray",
        "glDisableVertexAttribArray", "glBindTexture"}
           \subseteq {Calls[i].call : i \in 1..Len(Calls)}

----------------------------------------------------------------------------
(* Properties of the bone tree                                              *)

\* How often x occurs in list.
Occurrences(x, list) == Cardinality({i \in 1..Len(list) : list[i] = x})

\* The bones that no children list holds.
Roots(bs) == {b \in DOMAIN bs : \A p \in DOMAIN bs : ~InList(b, bs[p].children)}

\* The bones above boneName, through the parent fields, to depth levels.
RECURSIVE Ancestors(_, _, _)
Ancestors(bs, boneName, depth) ==
    IF depth = 0 \/ bs[boneName].parent = None
       \/ bs[boneName].parent[1] \notin DOMAIN bs
    THEN {}
    ELSE {bs[boneName].parent[1]}
         \cup Ancestors(bs, bs[boneName].parent[1], depth - 1)

\* C5: connectBone is idempotent: after connectBone(child, newParent) a second
\* call with the same arguments does not raise and leaves every parent field
\* and every children list as it is, the child listed once by its new parent.
C5_ConnectIdempotent ==
    (lastRig.op = "connect" /\ ~lastRig.raised) =>
        LET child == lastRig.bone[1]
            newParent == lastRig.parent[1]
        IN  /\ ~connectBoneRaises(bones, child, newParent)
            /\ connectBone(bones, child, newParent) = bones
            /\ Occurrences(child, bones[newParent].children) = 1

\* C5 happens: the hand was moved from the arm to the hip, behind the arm.
C5_Witness ==
    /\ lastRig = [op |-> "connect", bone |-> Some(Hand), parent |-> Some(Hip),
                  raised |-> FALSE]
    /\ bones[Hip].children = <<Arm, Hand>>
    /\ bones[Arm].children = <<>>
    /\ bones[Hand].parent = Some(Hip)

\* C6: after connectBone calls that never put a bone under itself or under a
\* bone below it, the rig has exactly one root and no bone is its own ancestor.
C6_OneRootNoCycle ==
    /\ Cardinality(Roots(bones)) = 1
    /\ \A b \in DOMAIN bones : b \notin Ancestors(bones, b, Cardinality(DOMAIN bones))

\* C6 happens: the hand was moved under the hair after the hair was moved
\* under the leg.
C6_Witness ==
    /\ lastRig.op = "connect" /\ lastRig.bone = Some(Hand)
    /\ bones[Hand].parent = Some(Hair)
    /\ bones[Hair].parent = Some(Leg)
    /\ bones[Leg].children = <<Hair>>

\* C7: parent fields and children lists agree: p lists c, once, exactly when
\* c's parent is p, every bone that has a parent is in exactly one children
\* list and a bone without a parent is in none.
C7_ParentChildrenAgree ==
    \A c \in DOMAIN bones :
        /\ \A p \in DOMAIN bones :
               /\ Occurrences(c, bones[p].children) <= 1
               /\ InList(c, bones[p].children) <=> bones[c].parent = Some(p)
        /\ Cardinality({p \in DOMAIN bones : InList(c, bones[p].children)})
               = IF bones[c].parent = None THEN 0 ELSE 1
        /\ bones[c].parent # None => bones[c].parent[1] \in DOMAIN bones

\* C7 happens: a bone extruded from the arm was re-parented to the hand.
C7_Witness ==
    /\ lastRig.op = "connect" /\ lastRig.bone = Some(NameIdx("doll arm", 1))
    /\ NameIdx("doll arm", 1) \in DOMAIN bones
    /\ bones[NameIdx("doll arm", 1)].parent = Some(Hand)
    /\ bones[Arm].children = <<Hand>>
    /\ bones[Hand].children = <<NameIdx("doll arm", 1)>>

----------------------------------------------------------------------------
(* Properties of the rig file                                               *)

\* The fields of a bone that the file persists.
PersistedFields ==
    {"name", "children", "parent", "image", "pos", "pivot", "rotation", "scale",
     "zOrder", "visible", "wireFrame"}

\* The last loadFromFile read a file that saveToFile wrote.
RoundTrip == loaded.op = "load" /\ loaded.raised = "none" /\ loaded.source # None

\* C8: loading a file that saveToFile wrote gives the same bone names and
\* for every bone the saved value of every persisted field.
C8_RoundTripPersisted ==
    RoundTrip =>
        /\ DOMAIN loaded.bones[1] = DOMAIN loaded.source[1]
        /\ \A n \in DOMAIN loaded.source[1] : \A f \in PersistedFields :
               loaded.bones[1][n][f] = loaded.source[1][n][f]

\* C8 happens: a posed, hidden arm with an image and its wireframe shown went
\* through the full format.
C8_Witness ==
    /\ RoundTrip /\ ~IsSkinRig(loaded.source[1])
    /\ loaded.source[1][Arm].wireFrame /\ ~loaded.source[1][Arm].visible
    /\ loaded.source[1][Arm].image = Some(ArmImage)
    /\ loaded.source[1][Arm].rotation = Vector3(0, 0, 3)
    /\ loaded.bones[1][Arm].rotation = Vector3(0, 0, 3)

\* C9: after a round trip through the lean format points, triangles and the
\* mesh buffers are absent; after one through the full format points,
\* triangles, vertices, indices, boneWeights and boneIndices are what was saved.
C9_DerivedData ==
    RoundTrip =>
        \A n \in DOMAIN loaded.source[1] :
            LET was == loaded.source[1][n]
                now == loaded.bones[1][n]
            IN  IF IsSkinRig(loaded.source[1])
                THEN now.points = <<>> /\ now.triangles = <<>> /\ now.mesh = None
                ELSE /\ now.points = was.points /\ now.triangles = was.triangles
                     /\ now.vertices = was.vertices /\ now.indices = was.indices
                     /\ now.boneWeights = was.boneWeights
                     /\ now.boneIndices = was.boneIndices

\* C10: loadFromFile raises its version error and builds no bones when the
\* stored version is not VERSION, and builds the bones when it is.
C10_VersionGate ==
    (loaded.op = "load" /\ loaded.version # None) =>
        IF loaded.version[1] # VERSION
        THEN loaded.raised = "version" /\ loaded.bones = None
        ELSE loaded.raised = "none" /\ loaded.bones # None

\* C10 happens: a file of a newer version was refused.
C10_Witness ==
    /\ loaded.op = "load" /\ loaded.version = Some(VERSION + 1)
    /\ loaded.raised = "version" /\ loaded.bones = None

====
